---- MODULE Spec2Model ----
(***************************************************************************)
(* Model of the TC flower offload layer of lib/netdev-tc-offloads.c:       *)
(* the ufid <-> (prio, handle, ifindex) cache (ufid_to_tc, tc_to_ufid,     *)
(* ufid_lock), the priority allocator (prios, prios_lock, last_prio) and   *)
(* the flow_put / flow_get / flow_del / flow_flush / dump operations, run  *)
(* by one or more threads against a kernel classifier reached through the  *)
(* tc_* transport calls of lib/tc.c.                                       *)
(*                                                                         *)
(* Every step of a thread is one action: a mutex acquisition, the body of  *)
(* a critical section up to the unlock, or one transport call.             *)
(***************************************************************************)
EXTENDS Integers, Sequences, FiniteSets, Bags, TLC

\* ------------------------------------------------------------------ bounds
\* Number of operations (flow_put, flow_get, ...) started in one behaviour of
\* Spec (one thread) and of SpecConc (two threads).
MaxOps == 4
MaxConcOps == 2
\* Handles the kernel hands out per (ifindex, prio): 1..MaxHandle.
MaxHandle == 2
\* Number of get_prio_for_tc_flower calls in one behaviour of SpecPrio.
MaxPrioCalls == 8

\* ---------------------------------------------------------------- universes
Ufids == {"u1", "u2"}
\* Mask signatures (mask bytes + key.eth_type), abstracted to small integers.
Sigs == {1, 2}
\* Devices; netdev_get_ifindex(d) is d when it succeeds.
Devices == {1, 2}
OneDevice == {1}
Threads == {1, 2}
\* Errors a transport call (tc_replace_flower, tc_del_filter, ...) can report
\* besides ENOENT for a filter that does not exist.
TransportErrs == {"EINVAL", "ENOBUFS"}
NoUfid == "none"
\* uint16_t prio (struct ufid_to_tc_data, struct prio_map_data).
PRIO_MOD == 65536

VARIABLES
    ufid_to_tc,   \* bag of [ufid, prio, handle, ifindex]: hmap ufid_to_tc
    tc_to_ufid,   \* bag of [ufid, prio, handle, ifindex]: hmap tc_to_ufid
    ufid_lock,    \* 0, or the thread holding ufid_lock
    cache_refs,   \* per device: netdev_ref calls of add_ufid_tc_mapping minus
                  \* netdev_close calls of del_ufid_tc_mapping
    prios,        \* function signature -> prio: hmap prios
    last_prio,    \* static int last_prio
    prios_lock,   \* 0, or the thread holding prios_lock
    filters,      \* kernel classifier: set of [ifindex, prio, handle, cookie, sig]
    th,           \* per thread: program counter and locals of the running call
    ops,          \* operations started so far
    env,          \* [threads, devices, ufids, sigs, budget]: the threads, devices,
                  \* flows and mask signatures in use and the number of
                  \* operations of this behaviour; never changes
    last,         \* the call that returned last, when a successful flow_put
    links         \* kernel network devices: name -> link, NoLink when absent

vars == <<ufid_to_tc, tc_to_ufid, ufid_lock, cache_refs, prios, last_prio,
          prios_lock,
          filters, th, ops, env, last, links>>

cache_vars == <<ufid_to_tc, tc_to_ufid, ufid_lock, cache_refs>>
prio_vars == <<prios, last_prio, prios_lock>>

\* ------------------------------------------------------------------ helpers
Entry(u, p, h, i) == [ufid |-> u, prio |-> p, handle |-> h, ifindex |-> i]
SameLoc(e, p, h, i) == e.prio = p /\ e.handle = h /\ e.ifindex = i

BagOne(e) == SetToBag({e})
\* hmap_insert
hmap_insert(map, e) == map (+) BagOne(e)
\* hmap_remove
hmap_remove(map, e) == map (-) BagOne(e)
hmap_count(map) == BagCardinality(map)

\* Entries of the ufid index an HMAP_FOR_EACH_WITH_HASH walk can stop at.
UfidMatches(map, u) == {e \in BagToSet(map) : e.ufid = u}
LocMatches(map, p, h, i) == {e \in BagToSet(map) : SameLoc(e, p, h, i)}

\* Names of network devices, and the absent device.
Names == {"tun0"}
NoLink == [kind |-> "none", learning |-> 0, metadata |-> 0, csum6_rx |-> 0,
           port |-> 0, gbp |-> FALSE]

\* Locals of a thread between calls.
Idle == [pc |-> "idle", op |-> "none", dev |-> 0, ufid |-> NoUfid, sig |-> 0,
         ifindex |-> 0, prio |-> 0, handle |-> 0, cdev |-> 0,
         fprio |-> 0, fhandle |-> 0, err |-> "OK", terr |-> "none",
         replaced |-> FALSE, clean |-> FALSE, fresh |-> FALSE,
         shape |-> "none", derr |-> "none", cookie |-> <<>>,
         rm |-> Entry(NoUfid, 0, 0, 0), reqs |-> <<>>,
         cursor |-> {}, msg |-> Entry(NoUfid, 0, 0, 0), out |-> <<>>,
         xin |-> [m |-> <<>>, a |-> <<>>, tp |-> 0], flower |-> <<>>,
         gm |-> <<>>, ga |-> <<>>,
         devref |-> 0, closes |-> 0, uar |-> FALSE,
         vtype |-> "none", cfg |-> <<>>, retried |-> FALSE, log |-> <<>>,
         out_of_tree |-> FALSE, xerr |-> "none"]

NoCall == [op |-> "none", dev |-> 0, ufid |-> NoUfid, sig |-> 0, filters |-> {},
           clean |-> FALSE]

Set(t, r) == th' = [th EXCEPT ![t] = r]
At(t, pc) == th[t].pc = pc

\* ------------------------------------------------------- kernel (transport)
\* A filter of kind flower: location, cookie, mask signature and the
\* interface index of its output action (0 without one).
Filter(i, p, h, c, s, o) ==
    [ifindex |-> i, prio |-> p, handle |-> h, cookie |-> c, sig |-> s,
     kind |-> "flower", ifindex_out |-> o]
FilterAt(fs, i, p, h) == {f \in fs : f.ifindex = i /\ f.prio = p /\ f.handle = h}
FreeHandles(fs, i, p) == {h \in 1..MaxHandle : FilterAt(fs, i, p, h) = {}}

\* tc_replace_flower(ifindex, prio, handle, flower): the outcomes
\* [err, filters, prio, handle] of an RTM_NEWTFILTER request with NLM_F_CREATE.
\* handle 0 asks the kernel for a handle of its choice.
tc_replace_flower(fs, i, p, h, c, s, o) ==
    {[err |-> e, filters |-> fs, prio |-> 0, handle |-> 0] : e \in TransportErrs}
    \cup
    {[err |-> "OK",
      filters |-> (fs \ FilterAt(fs, i, p, hh)) \cup {Filter(i, p, hh, c, s, o)},
      prio |-> p, handle |-> hh] :
        hh \in IF h = 0 THEN FreeHandles(fs, i, p) ELSE {h}}

\* tc_del_filter(ifindex, prio, handle): the outcomes [err, filters].
tc_del_filter(fs, i, p, h) ==
    IF FilterAt(fs, i, p, h) = {}
    THEN {[err |-> "ENOENT", filters |-> fs]}
    ELSE {[err |-> "OK", filters |-> fs \ FilterAt(fs, i, p, h)]}
         \cup {[err |-> e, filters |-> fs] : e \in TransportErrs}

\* tc_get_flower(ifindex, prio, handle, &flower): the outcomes [err, flower].
tc_get_flower(fs, i, p, h) ==
    IF FilterAt(fs, i, p, h) = {}
    THEN {[err |-> "ENOENT", flower |-> Filter(0, 0, 0, NoUfid, 0, 0)]}
    ELSE {[err |-> "OK", flower |-> f] : f \in FilterAt(fs, i, p, h)}
         \cup {[err |-> e, flower |-> Filter(0, 0, 0, NoUfid, 0, 0)] : e \in TransportErrs}

\* tc_flush(ifindex): the outcomes [err, filters].
tc_flush(fs, i) ==
    {[err |-> "OK", filters |-> {f \in fs : f.ifindex # i}]}
    \cup {[err |-> e, filters |-> fs] : e \in TransportErrs}

\* netdev_get_ifindex(netdev): the ifindex, or 0 for a negative errno.
netdev_get_ifindex(d) == {d, 0}

\* ---------------------------------------------------------------- the cache
\* netdev_ref(netdev) and netdev_close(netdev) on the count of references.
netdev_ref(refs, d) == [refs EXCEPT ![d] = @ + 1]
netdev_close(refs, d) == [refs EXCEPT ![d] = @ - 1]

\* Mutant: the walk never finds the ufid.
get_ufid_tc_mapping_miss(map, u) == {[handle |-> 0, prio |-> 0, dev |-> 0]}

\* get_ufid_tc_mapping(ufid, &prio, &netdev): the results [handle, prio, dev]
\* of the walk over ufid_to_tc; prio and dev keep their initial 0 when no
\* entry matches.
get_ufid_tc_mapping(map, u) ==
    IF UfidMatches(map, u) = {}
    THEN {[handle |-> 0, prio |-> 0, dev |-> 0]}
    ELSE {[handle |-> e.handle, prio |-> e.prio, dev |-> e.ifindex] :
              e \in UfidMatches(map, u)}

\* find_ufid(prio, handle, netdev, &ufid): the ufids the walk over tc_to_ufid
\* can return; NoUfid when no entry matches (returns false).
find_ufid(map, p, h, i) ==
    IF LocMatches(map, p, h, i) = {}
    THEN {NoUfid}
    ELSE {e.ufid : e \in LocMatches(map, p, h, i)}

\* Mutant: a return path that leaves ufid_lock held.
ufid_unlock_missing(t) == t

\* The value ovs_mutex_unlock(&ufid_lock) leaves in the mutex.
ufid_unlock(t) == 0
\* The value ovs_mutex_unlock(&prios_lock) leaves in the mutex.
prios_unlock(t) == 0

\* ------------------------------------------------------ priority allocator
\* Mutant: no lookup, every call allocates.
get_prio_for_tc_flower_nolookup(tbl, lp, s) ==
    [prios |-> (s :> ((lp + 1) % PRIO_MOD)) @@ tbl,
     last_prio |-> lp + 1,
     prio |-> (lp + 1) % PRIO_MOD]

\* Mutant: last_prio++ instead of ++last_prio.
get_prio_for_tc_flower_postinc(tbl, lp, s) ==
    IF s \in DOMAIN tbl
    THEN [prios |-> tbl, last_prio |-> lp, prio |-> tbl[s]]
    ELSE [prios |-> tbl @@ (s :> (lp % PRIO_MOD)),
          last_prio |-> lp + 1,
          prio |-> lp % PRIO_MOD]

\* get_prio_for_tc_flower(flower) on table tbl and counter lp for signature s:
\* [prios, last_prio, prio]. new_data->prio = ++last_prio stores an int in a
\* uint16_t.
get_prio_for_tc_flower(tbl, lp, s) ==
    IF s \in DOMAIN tbl
    THEN [prios |-> tbl, last_prio |-> lp, prio |-> tbl[s]]
    ELSE [prios |-> tbl @@ (s :> ((lp + 1) % PRIO_MOD)),
          last_prio |-> lp + 1,
          prio |-> (lp + 1) % PRIO_MOD]

\* ------------------------------------------------------ flower translation
\* Values are in host byte order; htons/ntohs pair up on the two sides.
ETH_TYPE_IP == 2048
ETH_TYPE_VLAN == 33024
VLAN_VID_MASK == 4095
VLAN_CFI == 4096
VLAN_PCP_MASK == 57344
VLAN_PCP_SHIFT == 13
U16_MAX == 65535
U8_MAX == 255
UFID_LEN == 16

\* The bit fields of a 16-bit TCI (x & VLAN_VID_MASK, ...).
tci_vid_bits(x) == x % VLAN_CFI
tci_cfi_bits(x) == ((x \div VLAN_CFI) % 2) * VLAN_CFI
tci_pcp_bits(x) == (x \div 2^VLAN_PCP_SHIFT) * 2^VLAN_PCP_SHIFT
vlan_tci_to_vid(x) == tci_vid_bits(x)
vlan_tci_to_pcp(x) == x \div 2^VLAN_PCP_SHIFT

\* struct match after match_init_catchall: key and mask per field. nw_dst
\* stands for the four address fields, tp_dst for the two transport ports,
\* unsupp for the mask of the fields test_key_and_mask only reports.
Match0 ==
    [dl_type |-> 0, dl_type_m |-> 0,
     dl_dst |-> 0, dl_dst_m |-> 0, dl_src |-> 0, dl_src_m |-> 0,
     vlan_tci |-> 0, vlan_tci_m |-> 0,
     nw_proto |-> 0, nw_proto_m |-> 0, nw_dst |-> 0, nw_dst_m |-> 0,
     tp_dst |-> 0, tp_dst_m |-> 0,
     tun_id |-> 0, tun_dst |-> 0, tun_tp_dst |-> 0,
     unsupp |-> 0]

\* struct tc_flower after memset(&flower, 0, sizeof(flower)) (line 669).
Flower0 ==
    [eth_type |-> 0, eth_type_m |-> 0,
     dst_mac |-> 0, dst_mac_m |-> 0, src_mac |-> 0, src_mac_m |-> 0,
     vlan_id |-> 0, vlan_prio |-> 0, encap_eth_type |-> 0,
     ip_proto |-> 0, ip_proto_m |-> 0, ipv4_dst |-> 0, ipv4_dst_m |-> 0,
     dst_port |-> 0, dst_port_m |-> 0,
     tunnel |-> FALSE, tunnel_id |-> 0, tunnel_ipv4_dst |-> 0,
     tunnel_tp_dst |-> 0,
     ifindex_out |-> 0, vlan_push_id |-> 0, vlan_push_prio |-> 0,
     vlan_pop |-> 0,
     set |-> FALSE, set_id |-> 0, set_ipv4_dst |-> 0, set_tp_dst |-> 0,
     cookie_len |-> 0, cookie_data |-> NoUfid]

\* Mutant: the cookie length is taken from the pointer, not the ufid.
act_cookie_short(u) == [data |-> u, len |-> UFID_LEN \div 2]

\* Lines 787-788: flower.act_cookie points at the ufid, sizeof *ufid long.
act_cookie(u) == [data |-> u, len |-> UFID_LEN]

\* Line 462 on the cookie the kernel stored from c: no cookie when c is empty,
\* the ufid when all of it was stored, otherwise the bytes the read of a
\* whole ovs_u128 finds behind a shorter cookie.
cookie_ufid(c) ==
    IF c.len = 0 THEN NoUfid ELSE IF c.len = UFID_LEN THEN c.data ELSE "short"

\* Lines 671-686: the tunnel key is copied when tun_id is set.
put_tunnel(fl, m) ==
    IF m.tun_id # 0
    THEN [fl EXCEPT !.tunnel_id = m.tun_id, !.tunnel_ipv4_dst = m.tun_dst,
                    !.tunnel_tp_dst = m.tun_tp_dst, !.tunnel = TRUE]
    ELSE fl

\* Lines 688-689.
put_eth_type(fl, m) ==
    [fl EXCEPT !.eth_type = m.dl_type, !.eth_type_m = m.dl_type_m]

\* Mutant: the CFI bit of the key is not looked at.
vlan_expressible_anykey(key, mask) ==
    /\ tci_cfi_bits(mask) # 0
    /\ tci_vid_bits(mask) \in {0, VLAN_VID_MASK}
    /\ tci_pcp_bits(mask) \in {0, VLAN_PCP_MASK}
    /\ (tci_vid_bits(mask) # 0 \/ tci_pcp_bits(mask) # 0)

\* Lines 696-699: the VLAN match the classifier can express.
vlan_expressible(key, mask) ==
    /\ tci_cfi_bits(mask) # 0
    /\ tci_cfi_bits(key) # 0
    /\ tci_vid_bits(mask) \in {0, VLAN_VID_MASK}
    /\ tci_pcp_bits(mask) \in {0, VLAN_PCP_MASK}
    /\ (tci_vid_bits(mask) # 0 \/ tci_pcp_bits(mask) # 0)

\* Lines 710-711: exact match on "no VLAN".
vlan_none(key, mask) == mask = U16_MAX /\ key = 0

\* Lines 691-717: [err, flower].
put_vlan(fl, m) ==
    IF m.vlan_tci_m = 0 THEN [err |-> "OK", flower |-> fl]
    ELSE IF vlan_expressible(m.vlan_tci, m.vlan_tci_m)
    THEN [err |-> "OK",
          flower |->
            [fl EXCEPT
               !.vlan_id = IF tci_vid_bits(m.vlan_tci_m) # 0
                           THEN vlan_tci_to_vid(m.vlan_tci) ELSE @,
               !.vlan_prio = IF tci_pcp_bits(m.vlan_tci_m) # 0
                             THEN vlan_tci_to_pcp(m.vlan_tci) ELSE @,
               !.encap_eth_type = m.dl_type,
               !.eth_type = ETH_TYPE_VLAN]]
    ELSE IF vlan_none(m.vlan_tci, m.vlan_tci_m)
    THEN [err |-> "OK", flower |-> fl]
    ELSE [err |-> "EOPNOTSUPP", flower |-> fl]

\* Lines 719-742: addresses, protocol, ports.
put_fields(fl, m) ==
    LET f1 == [fl EXCEPT !.dst_mac = m.dl_dst, !.dst_mac_m = U8_MAX,
                         !.src_mac = m.dl_src, !.src_mac_m = m.dl_src_m]
        f2 == IF f1.eth_type = ETH_TYPE_IP
              THEN [f1 EXCEPT !.ip_proto = m.nw_proto,
                              !.ip_proto_m = m.nw_proto_m]
              ELSE f1
    IN [f2 EXCEPT !.ipv4_dst = m.nw_dst, !.ipv4_dst_m = m.nw_dst_m,
                  !.dst_port = m.tp_dst, !.dst_port_m = m.tp_dst_m]

\* Mutant: a field the classifier cannot match fails the call.
test_key_and_mask_strict(m) == IF m.unsupp # 0 THEN "EOPNOTSUPP" ELSE "OK"

\* test_key_and_mask(match): logs the ignored fields; returns nothing.
test_key_and_mask(m) == "OK"

\* An action of the list given to flow_put: type is "output", "push_vlan",
\* "pop_vlan", "set_tunnel" (OVS_ACTION_ATTR_SET nesting OVS_KEY_ATTR_TUNNEL),
\* "set_other" (OVS_ACTION_ATTR_SET nesting another key) or "other".
Act(ty, port, tci, id, dst, tp) ==
    [type |-> ty, port |-> port, tci |-> tci,
     tun_id |-> id, tun_dst |-> dst, tun_tp |-> tp]

\* Mutant: any nested key is taken without complaint.
parse_put_flow_set_action_any(fl, act) == [err |-> "OK", flower |-> fl]

\* Lines 476-533: [err, flower] for the nested attribute of a set action.
parse_put_flow_set_action(fl, act) ==
    IF act.type = "set_tunnel"
    THEN [err |-> "OK",
          flower |-> [fl EXCEPT !.set = TRUE, !.set_id = act.tun_id,
                                !.set_ipv4_dst = act.tun_dst,
                                !.set_tp_dst = act.tun_tp]]
    ELSE [err |-> "EOPNOTSUPP", flower |-> fl]

\* netdev_hmap_port_get(port) and the ifindex of the device found: ports 3
\* and 4 are devices with that ifindex, any other port has no device (0).
port_ifindex(port) == IF port \in {3, 4} THEN port ELSE 0
\* netdev_hmap_port_get_byifidx(ifindex): the port, 0 when there is none.
netdev_hmap_port_get_byifidx(i) == IF i \in {3, 4} THEN i ELSE 0

\* Lines 748-754: for a port without device outdev is NULL and
\* netdev_get_ifindex(outdev) dereferences it: the call may not return
\* ("crash") or return a negative errno ("errno").
NullDevOutcomes == {"crash", "errno"}
\* The negative errno (-ENODEV) in that case.
NoDevIfindex == 0 - 19

\* Lines 747-774 for one action: [err, flower]. oi is the outcome of
\* netdev_get_ifindex(NULL) in this call.
put_action(fl, act, tp, oi) ==
    CASE act.type = "output" ->
            IF port_ifindex(act.port) = 0 /\ oi = "crash"
            THEN [err |-> "CRASH", flower |-> fl]
            ELSE [err |-> "OK",
                  flower |->
                    [fl EXCEPT !.ifindex_out = IF port_ifindex(act.port) # 0
                                               THEN port_ifindex(act.port)
                                               ELSE NoDevIfindex,
                               !.set_tp_dst = tp]]
      [] act.type = "push_vlan" ->
            [err |-> "OK",
             flower |-> [fl EXCEPT !.vlan_push_id = vlan_tci_to_vid(act.tci),
                                   !.vlan_push_prio = vlan_tci_to_pcp(act.tci)]]
      [] act.type = "pop_vlan" ->
            [err |-> "OK", flower |-> [fl EXCEPT !.vlan_pop = 1]]
      [] act.type \in {"set_tunnel", "set_other"} ->
            parse_put_flow_set_action(fl, act)
      [] OTHER -> [err |-> "EOPNOTSUPP", flower |-> fl]

\* Lines 746-775: NL_ATTR_FOR_EACH over the list from position n on.
RECURSIVE put_actions(_, _, _, _, _)
put_actions(fl, a, n, tp, oi) ==
    IF n > Len(a) THEN [err |-> "OK", flower |-> fl]
    ELSE LET r == put_action(fl, a[n], tp, oi) IN
         IF r.err # "OK" THEN r ELSE put_actions(r.flower, a, n + 1, tp, oi)

\* Lines 669-775 and 787-788: the record flow_put builds from match m and
\* action list a for ufid u, [err, flower]; tp is info->tp_dst_port.
flow_put_flower(m, a, u, tp, oi) ==
    LET v == put_vlan(put_eth_type(put_tunnel(Flower0, m), m), m) IN
    IF v.err # "OK" THEN v
    ELSE IF test_key_and_mask(m) # "OK"
    THEN [err |-> test_key_and_mask(m), flower |-> v.flower]
    ELSE LET r == put_actions(put_fields(v.flower, m), a, 1, tp, oi) IN
         IF r.err # "OK" THEN r
         ELSE [err |-> "OK",
               flower |-> [r.flower EXCEPT !.cookie_data = act_cookie(u).data,
                                           !.cookie_len = act_cookie(u).len]]

\* match_set_*_masked(match, key, mask) with a mask of all zeros or all ones.
masked(k, m) == IF m = 0 THEN 0 ELSE k

\* Lines 331-338: EtherType, MAC addresses and VLAN of the match.
parse_l2(fl) ==
    LET m1 == [Match0 EXCEPT !.dl_type = fl.eth_type, !.dl_type_m = U16_MAX,
                             !.dl_src = masked(fl.src_mac, fl.src_mac_m),
                             !.dl_src_m = fl.src_mac_m,
                             !.dl_dst = masked(fl.dst_mac, fl.dst_mac_m),
                             !.dl_dst_m = fl.dst_mac_m]
    IN IF fl.vlan_id # 0 \/ fl.vlan_prio # 0
       THEN [m1 EXCEPT !.vlan_tci = fl.vlan_id + VLAN_CFI
                                    + fl.vlan_prio * 2^VLAN_PCP_SHIFT,
                       !.vlan_tci_m = U16_MAX,
                       !.dl_type = fl.encap_eth_type]
       ELSE m1

\* Lines 340-355: IP protocol, addresses, ports.
parse_l3(fl, m) ==
    LET m1 == IF fl.ip_proto # 0 /\ fl.eth_type = ETH_TYPE_IP
              THEN [m EXCEPT !.nw_proto = fl.ip_proto, !.nw_proto_m = U8_MAX]
              ELSE m
    IN [m1 EXCEPT !.nw_dst = masked(fl.ipv4_dst, fl.ipv4_dst_m),
                  !.nw_dst_m = fl.ipv4_dst_m,
                  !.tp_dst = masked(fl.dst_port, fl.dst_port_m),
                  !.tp_dst_m = fl.dst_port_m]

\* Mutant: the tunnel fields of the match are taken from the set action.
parse_tunnel_from_set(fl, m) ==
    IF fl.tunnel \/ fl.set
    THEN [m EXCEPT !.tun_id = IF fl.set THEN fl.set_id ELSE fl.tunnel_id,
                   !.tun_dst = IF fl.set THEN fl.set_ipv4_dst
                               ELSE fl.tunnel_ipv4_dst,
                   !.tp_dst = fl.tunnel_tp_dst, !.tp_dst_m = U16_MAX]
    ELSE m

\* Lines 357-368: tunnel id and addresses; match_set_tp_dst writes the
\* tunnel's port into the transport destination port of the match.
parse_tunnel(fl, m) ==
    IF fl.tunnel
    THEN [m EXCEPT !.tun_id = fl.tunnel_id,
                   !.tun_dst = fl.tunnel_ipv4_dst,
                   !.tp_dst = fl.tunnel_tp_dst, !.tp_dst_m = U16_MAX]
    ELSE m

\* Lines 370-425: the action list built from the record.
parse_actions(fl, outport) ==
    (IF fl.vlan_pop # 0 THEN <<Act("pop_vlan", 0, 0, 0, 0, 0)>> ELSE <<>>)
    \o (IF fl.vlan_push_id # 0 \/ fl.vlan_push_prio # 0
        THEN <<Act("push_vlan", 0,
                   fl.vlan_push_id + fl.vlan_push_prio * 2^VLAN_PCP_SHIFT
                   + VLAN_CFI, 0, 0, 0)>>
        ELSE <<>>)
    \o (IF fl.set
        THEN <<Act("set_tunnel", 0, 0, fl.set_id, fl.set_ipv4_dst,
                   fl.set_tp_dst)>>
        ELSE <<>>)
    \o (IF fl.ifindex_out > 0
        THEN <<Act("output", outport, 0, 0, 0, 0)>> ELSE <<>>)

\* parse_tc_flower_to_match(flower, match, actions, ...): [err, match, actions].
parse_tc_flower_to_match(fl) ==
    LET outport == IF fl.ifindex_out # 0
                   THEN netdev_hmap_port_get_byifidx(fl.ifindex_out) ELSE 0 IN
    IF fl.ifindex_out # 0 /\ outport = 0
    THEN [err |-> "ENOENT", match |-> Match0, actions |-> <<>>]
    ELSE [err |-> "OK",
          match |-> parse_tunnel(fl, parse_l3(fl, parse_l2(fl))),
          actions |-> parse_actions(fl, outport)]

\* ------------------------------------------------------------ call and return
\* A call returning err: the locals stay readable until Return.
RetRec(r, e) == [r EXCEPT !.pc = "ret", !.err = e]

Begin(t) ==
    /\ t \in env.threads
    /\ At(t, "idle")
    /\ ops < env.budget
    /\ ops' = ops + 1
    /\ UNCHANGED <<env, links>>

Return(t) ==
    /\ At(t, "ret")
    /\ last' = IF th[t].op = "put" /\ th[t].err = "OK"
               THEN [op |-> "put", dev |-> th[t].dev, ufid |-> th[t].ufid,
                     sig |-> th[t].sig, filters |-> filters,
                     clean |-> th[t].clean]
               ELSE NoCall
    /\ Set(t, Idle)
    /\ UNCHANGED <<cache_vars, prio_vars, filters, ops, env, links>>

\* --------------------------------------------- get_ufid_tc_mapping, in steps
\* Mutant: flow_get and flow_del go on without testing the handle.
AfterGetMapUnchecked(r) ==
    CASE r.op = "put" ->
            IF r.handle # 0 /\ r.prio # 0 THEN [r EXCEPT !.pc = "put_del"]
            ELSE IF r.prio = 0 THEN [r EXCEPT !.pc = "pr_lock"]
            ELSE [r EXCEPT !.pc = "put_replace"]
      [] r.op = "get" -> [r EXCEPT !.pc = "get_ifindex"]
      [] OTHER -> [r EXCEPT !.pc = "del_ifindex"]

\* Where a call continues after get_ufid_tc_mapping returned r.
AfterGetMap(r) ==
    CASE r.op = "put" ->
            IF r.handle # 0 /\ r.prio # 0 THEN [r EXCEPT !.pc = "put_del"]
            ELSE IF r.prio = 0 THEN [r EXCEPT !.pc = "pr_lock"]
            ELSE [r EXCEPT !.pc = "put_replace"]
      [] r.op = "get" ->
            IF r.handle = 0 THEN RetRec(r, "ENOENT")
            ELSE [r EXCEPT !.pc = "get_ifindex"]
      [] OTHER ->
            IF r.handle = 0 THEN RetRec(r, "ENOENT")
            ELSE [r EXCEPT !.pc = "del_ifindex"]

\* Line 186: a caller that passes &dev (flow_get, flow_del; flow_put passes
\* NULL) receives a reference on the device of the entry found.
lookup_ref(r, m) == IF r.op # "put" /\ m.handle # 0 THEN 1 ELSE 0

GetMapLock(t) ==
    /\ At(t, "gm_lock")
    /\ ufid_lock = 0
    /\ ufid_lock' = t
    /\ Set(t, [th[t] EXCEPT !.pc = "gm_body"])
    /\ UNCHANGED <<ufid_to_tc, tc_to_ufid, cache_refs, prio_vars, filters, ops,
                 env, last, links>>

\* Mutant: the lookup returns without releasing the mutex.
GetMapBodyHolding(t) ==
    /\ At(t, "gm_body")
    /\ \E m \in get_ufid_tc_mapping(ufid_to_tc, th[t].ufid) :
          Set(t, AfterGetMap([th[t] EXCEPT !.handle = m.handle,
                                           !.prio = m.prio,
                                           !.cdev = m.dev,
                                           !.devref = lookup_ref(th[t], m)]))
    /\ ufid_lock' = ufid_lock
    /\ UNCHANGED <<ufid_to_tc, tc_to_ufid, cache_refs, prio_vars, filters, ops,
                 env, last, links>>

\* Lines 181-194: the walk over ufid_to_tc under ufid_lock.
GetMapBody(t) ==
    /\ At(t, "gm_body")
    /\ \E m \in get_ufid_tc_mapping(ufid_to_tc, th[t].ufid) :
          Set(t, AfterGetMap([th[t] EXCEPT !.handle = m.handle,
                                           !.prio = m.prio,
                                           !.cdev = m.dev,
                                           !.devref = lookup_ref(th[t], m)]))
    /\ ufid_lock' = ufid_unlock(t)
    /\ UNCHANGED <<ufid_to_tc, tc_to_ufid, cache_refs, prio_vars, filters, ops,
                 env, last, links>>

\* --------------------------------------------- del_ufid_tc_mapping, in steps
\* Where the caller of del_ufid_tc_mapping continues: add_ufid_tc_mapping
\* with its insertions, flow_del with netdev_close(dev) and its return
\* (lines 873-878).
AfterDelMap(r) ==
    IF r.op = "put" THEN [r EXCEPT !.pc = "am_lock"]
    ELSE [r EXCEPT !.pc = "ret", !.devref = @ - 1, !.closes = @ + 1]

DelMapLock(t) ==
    /\ At(t, "dm_lock")
    /\ ufid_lock = 0
    /\ ufid_lock' = t
    /\ Set(t, [th[t] EXCEPT !.pc = "dm_find"])
    /\ UNCHANGED <<ufid_to_tc, tc_to_ufid, cache_refs, prio_vars, filters, ops,
                 env, last, links>>

\* Lines 105-123: find the ufid in ufid_to_tc; return if absent, else remove
\* it and keep its prio/handle/ifindex.
DelMapFind(t) ==
    /\ At(t, "dm_find")
    /\ IF UfidMatches(ufid_to_tc, th[t].ufid) = {}
       THEN /\ ufid_lock' = ufid_unlock(t)
            /\ Set(t, AfterDelMap(th[t]))
            /\ UNCHANGED <<ufid_to_tc, cache_refs>>
       ELSE /\ \E e \in UfidMatches(ufid_to_tc, th[t].ufid) :
                  /\ ufid_to_tc' = hmap_remove(ufid_to_tc, e)
                  /\ cache_refs' = netdev_close(cache_refs, e.ifindex)
                  /\ Set(t, [th[t] EXCEPT !.pc = "dm_rm2", !.rm = e,
                                          !.replaced = TRUE])
            /\ UNCHANGED ufid_lock
    /\ UNCHANGED <<tc_to_ufid, prio_vars, filters, ops, env, last, links>>

\* The tc_to_ufid entries lines 125-129 can stop at for the removed entry rm.
del_tc_matches(map, rm) == LocMatches(map, rm.prio, rm.handle, rm.ifindex)

\* Mutant: the entry of tc_to_ufid is removed without netdev_close.
DelMapRm2Unreleased(t) ==
    /\ At(t, "dm_rm2")
    /\ IF del_tc_matches(tc_to_ufid, th[t].rm) = {}
       THEN UNCHANGED tc_to_ufid
       ELSE \E e \in del_tc_matches(tc_to_ufid, th[t].rm) :
                tc_to_ufid' = hmap_remove(tc_to_ufid, e)
    /\ ufid_lock' = ufid_unlock(t)
    /\ Set(t, AfterDelMap([th[t] EXCEPT !.rm = Idle.rm]))
    /\ UNCHANGED <<ufid_to_tc, cache_refs, prio_vars, filters, ops, env, last, links>>

\* Lines 125-135: remove the entry of tc_to_ufid at that location with its
\* reference, unlock.
DelMapRm2(t) ==
    /\ At(t, "dm_rm2")
    /\ IF del_tc_matches(tc_to_ufid, th[t].rm) = {}
       THEN UNCHANGED <<tc_to_ufid, cache_refs>>
       ELSE \E e \in del_tc_matches(tc_to_ufid, th[t].rm) :
                /\ tc_to_ufid' = hmap_remove(tc_to_ufid, e)
                /\ cache_refs' = netdev_close(cache_refs, e.ifindex)
    /\ ufid_lock' = ufid_unlock(t)
    /\ Set(t, AfterDelMap([th[t] EXCEPT !.rm = Idle.rm]))
    /\ UNCHANGED <<ufid_to_tc, prio_vars, filters, ops, env, last, links>>

\* --------------------------------------------- add_ufid_tc_mapping, in steps
\* (its del_ufid_tc_mapping(ufid) call is DelMapLock .. DelMapRm2)
\* Mutant: the entry records the priority and handle flow_put asked for.
new_data_requested(r) == Entry(r.ufid, r.prio, r.handle, r.ifindex)

\* The entry add_ufid_tc_mapping(ufid, prio, handle, netdev, ifindex) builds.
new_data(r) == Entry(r.ufid, r.fprio % PRIO_MOD, r.fhandle, r.ifindex)

\* Lines 151-163: new_data and new_data2 each take a reference on netdev,
\* then the lock is acquired.
AddMapLock(t) ==
    /\ At(t, "am_lock")
    /\ ufid_lock = 0
    /\ ufid_lock' = t
    /\ cache_refs' = netdev_ref(netdev_ref(cache_refs, th[t].dev), th[t].dev)
    /\ Set(t, [th[t] EXCEPT !.pc = "am_ins1"])
    /\ UNCHANGED <<ufid_to_tc, tc_to_ufid, prio_vars, filters, ops, env, last, links>>

AddMapIns1(t) ==
    /\ At(t, "am_ins1")
    /\ ufid_to_tc' = hmap_insert(ufid_to_tc, new_data(th[t]))
    /\ Set(t, [th[t] EXCEPT !.pc = "am_ins2"])
    /\ UNCHANGED <<tc_to_ufid, ufid_lock, cache_refs, prio_vars, filters, ops,
                 env, last, links>>

AddMapIns2(t) ==
    /\ At(t, "am_ins2")
    /\ tc_to_ufid' = hmap_insert(tc_to_ufid, new_data(th[t]))
    /\ ufid_lock' = ufid_unlock(t)
    /\ UNCHANGED cache_refs
    /\ Set(t, RetRec(th[t], "OK"))
    /\ UNCHANGED <<ufid_to_tc, prio_vars, filters, ops, env, last, links>>

\* ------------------------------------------ get_prio_for_tc_flower, in steps
\* Where the caller continues with the priority returned.
AfterPrio(r) ==
    IF r.op = "prio" THEN RetRec(r, "OK") ELSE [r EXCEPT !.pc = "put_replace"]

\* Mutant: the walk starts without taking prios_lock.
PrioLockSkipped(t) ==
    /\ At(t, "pr_lock")
    /\ Set(t, [th[t] EXCEPT !.pc = "pr_body"])
    /\ UNCHANGED <<cache_vars, prio_vars, filters, ops, env, last, links>>

\* Line 243: ovs_mutex_lock(&prios_lock).
PrioLock(t) ==
    /\ At(t, "pr_lock")
    /\ prios_lock = 0
    /\ prios_lock' = t
    /\ Set(t, [th[t] EXCEPT !.pc = "pr_body"])
    /\ UNCHANGED <<cache_vars, prios, last_prio, filters, ops, env, last, links>>

\* Lines 244-250: the walk over prios; on a match unlock and return its prio,
\* otherwise go on to the allocation with the lock still held.
PrioBody(t) ==
    /\ At(t, "pr_body")
    /\ LET g == get_prio_for_tc_flower(prios, last_prio, th[t].sig) IN
          IF g.last_prio = last_prio
          THEN /\ Set(t, AfterPrio([th[t] EXCEPT !.prio = g.prio]))
               /\ prios_lock' = prios_unlock(t)
          ELSE /\ Set(t, [th[t] EXCEPT !.pc = "pr_insert"])
               /\ UNCHANGED prios_lock
    /\ UNCHANGED <<cache_vars, prios, last_prio, filters, ops, env, last, links>>

\* The table as the walk of this call saw it: without an entry for s.
prios_missed(tbl, s) == [x \in DOMAIN tbl \ {s} |-> tbl[x]]

\* Lines 252-259: allocate, insert, unlock, return. The walk of this call
\* ended without a match, so the allocation runs whatever the table holds now.
PrioInsert(t) ==
    /\ At(t, "pr_insert")
    /\ LET g == get_prio_for_tc_flower(prios_missed(prios, th[t].sig),
                                       last_prio, th[t].sig) IN
          /\ prios' = g.prios
          /\ last_prio' = g.last_prio
          /\ Set(t, AfterPrio([th[t] EXCEPT !.prio = g.prio]))
    /\ prios_lock' = prios_unlock(t)
    /\ UNCHANGED <<cache_vars, filters, ops, env, last, links>>

\* ------------------------------------------------------- netdev_tc_flow_put
\* History kept for the claims: at the start of a flow_put for u on interface
\* i, every installed filter carrying cookie u sits at a location on i that
\* the ufid index records for u.
Clean(u, i) ==
    \A f \in {x \in filters : x.cookie = u} :
        \E e \in UfidMatches(ufid_to_tc, u) :
            f.ifindex = i /\ SameLoc(e, f.prio, f.handle, f.ifindex)

\* The kinds of match and action list flow_put is called with: one the
\* translation accepts, a partial VLAN mask, an action of another type, a set
\* action nesting another key than the tunnel.
Shapes == {"ok", "partial_vlan", "bad_action", "bad_set"}

ShapeMatch(shape) ==
    [Match0 EXCEPT !.dl_type = ETH_TYPE_IP, !.dl_type_m = U16_MAX,
                   !.vlan_tci = IF shape = "partial_vlan"
                                THEN 5 + VLAN_CFI ELSE 0,
                   !.vlan_tci_m = IF shape = "partial_vlan"
                                  THEN 240 + VLAN_CFI ELSE 0]

ShapeActions(shape) ==
    CASE shape = "bad_action" ->
            <<Act("output", 3, 0, 0, 0, 0), Act("other", 0, 0, 0, 0, 0)>>
      [] shape = "bad_set" ->
            <<Act("set_other", 0, 0, 0, 0, 0), Act("output", 3, 0, 0, 0, 0)>>
      [] OTHER -> <<Act("output", 3, 0, 0, 0, 0)>>

\* Lines 662-775: resolve the ifindex, translate match and actions; s is the
\* mask signature of the match.
PutEnter(t, d, u, s, shape) ==
    /\ Begin(t)
    /\ d \in env.devices /\ u \in env.ufids /\ s \in env.sigs
    /\ \E i \in netdev_get_ifindex(d) :
          LET r == [Idle EXCEPT !.op = "put", !.dev = d, !.ufid = u, !.sig = s,
                                !.ifindex = i, !.clean = Clean(u, i),
                                !.shape = shape]
              x == flow_put_flower(ShapeMatch(shape), ShapeActions(shape),
                                   u, 0, "errno") IN
          Set(t, IF i = 0 THEN RetRec(r, "ENODEV")
                 ELSE IF x.err # "OK" THEN RetRec(r, x.err)
                 ELSE [r EXCEPT !.pc = "gm_lock"])
    /\ UNCHANGED <<cache_vars, prio_vars, filters, last>>

\* Mutant: a failed tc_del_filter ends the call.
AfterPutDelChecked(r) ==
    IF r.derr # "OK" THEN RetRec(r, "EINVAL")
    ELSE IF r.prio = 0 THEN [r EXCEPT !.pc = "pr_lock"]
    ELSE [r EXCEPT !.pc = "put_replace"]

\* Where flow_put continues after tc_del_filter of the old filter (line 783).
AfterPutDel(r) ==
    IF r.prio = 0 THEN [r EXCEPT !.pc = "pr_lock"] ELSE [r EXCEPT !.pc = "put_replace"]

\* Lines 778-781: tc_del_filter(ifindex, prio, handle); its result is dropped.
PutDelFilter(t) ==
    /\ At(t, "put_del")
    /\ \E o \in tc_del_filter(filters, th[t].ifindex, th[t].prio, th[t].handle) :
          /\ filters' = o.filters
          /\ Set(t, AfterPutDel([th[t] EXCEPT !.reqs = Append(@, "del"),
                                              !.derr = IF o.err = "OK" THEN "OK"
                                                       ELSE "failed"]))
    /\ UNCHANGED <<cache_vars, prio_vars, ops, env, last, links>>

\* What flow_put does with the result o of tc_replace_flower (lines 790-795).
AfterReplace(r, o) ==
    IF o.err # "OK" THEN RetRec(r, o.err)
    ELSE [r EXCEPT !.pc = "dm_lock", !.fprio = o.prio, !.fhandle = o.handle]

\* flower.ifindex_out of the record the call of r built (lines 748-750).
put_ifindex_out(r) ==
    flow_put_flower(ShapeMatch(r.shape), ShapeActions(r.shape), r.ufid, 0,
                    "errno").flower.ifindex_out

\* Lines 787-790: the cookie is the ufid; tc_replace_flower(ifindex, prio,
\* handle, &flower).
PutReplace(t) ==
    /\ At(t, "put_replace")
    /\ \E o \in tc_replace_flower(filters, th[t].ifindex, th[t].prio,
                                  th[t].handle,
                                  cookie_ufid(act_cookie(th[t].ufid)),
                                  th[t].sig, put_ifindex_out(th[t])) :
          /\ filters' = o.filters
          /\ Set(t, AfterReplace([th[t] EXCEPT !.reqs = Append(@, "replace"),
                                               !.cookie = act_cookie(th[t].ufid),
                                               !.terr = o.err], o))
    /\ UNCHANGED <<cache_vars, prio_vars, ops, env, last, links>>

\* ------------------------------------------------------- netdev_tc_flow_get
GetEnter(t, u) ==
    /\ Begin(t)
    /\ u \in env.ufids
    /\ Set(t, [Idle EXCEPT !.op = "get", !.ufid = u, !.pc = "gm_lock"])
    /\ UNCHANGED <<cache_vars, prio_vars, filters, last>>

\* Lines 820-825: netdev_get_ifindex(dev) of the cached device.
GetIfindex(t) ==
    /\ At(t, "get_ifindex")
    /\ \E i \in netdev_get_ifindex(th[t].cdev) :
          Set(t, IF i = 0 THEN RetRec(th[t], "ENODEV")
                 ELSE [th[t] EXCEPT !.pc = "get_transact", !.ifindex = i])
    /\ UNCHANGED <<cache_vars, prio_vars, filters, ops, env, last, links>>

\* Lines 829-843: tc_get_flower, netdev_close(dev); on an error the message
\* logged reads netdev_get_name(dev) after that close (lines 831-834);
\* otherwise the translation of the record.
GetTransact(t) ==
    /\ At(t, "get_transact")
    /\ \E o \in tc_get_flower(filters, th[t].ifindex, th[t].prio, th[t].handle) :
          Set(t, RetRec([th[t] EXCEPT !.reqs = Append(@, "get"),
                                      !.out = IF o.err = "OK" THEN <<o.flower.cookie>>
                                              ELSE <<>>,
                                      !.devref = @ - 1, !.closes = @ + 1,
                                      !.uar = (o.err # "OK")], o.err))
    /\ UNCHANGED <<cache_vars, prio_vars, filters, ops, env, last, links>>

\* ------------------------------------------------------- netdev_tc_flow_del
DelEnter(t, u) ==
    /\ Begin(t)
    /\ u \in env.ufids
    /\ Set(t, [Idle EXCEPT !.op = "del", !.ufid = u, !.pc = "gm_lock"])
    /\ UNCHANGED <<cache_vars, prio_vars, filters, last>>

\* Lines 862-868: netdev_get_ifindex(dev); on failure netdev_close(dev) and
\* return -ifindex.
del_ifindex_failed(r) ==
    RetRec([r EXCEPT !.devref = @ - 1, !.closes = @ + 1], "ENODEV")

DelIfindex(t) ==
    /\ At(t, "del_ifindex")
    /\ \E i \in netdev_get_ifindex(th[t].cdev) :
          Set(t, IF i = 0 THEN del_ifindex_failed(th[t])
                 ELSE [th[t] EXCEPT !.pc = "del_transact", !.ifindex = i])
    /\ UNCHANGED <<cache_vars, prio_vars, filters, ops, env, last, links>>

\* Line 870-871: error = tc_del_filter(...); then del_ufid_tc_mapping(ufid).
DelTransact(t) ==
    /\ At(t, "del_transact")
    /\ \E o \in tc_del_filter(filters, th[t].ifindex, th[t].prio, th[t].handle) :
          /\ filters' = o.filters
          /\ Set(t, [th[t] EXCEPT !.pc = "dm_lock", !.err = o.err,
                                  !.terr = o.err, !.reqs = Append(@, "del")])
    /\ UNCHANGED <<cache_vars, prio_vars, ops, env, last, links>>

\* ----------------------------------------------------- netdev_tc_flow_flush
FlushEnter(t, d) ==
    /\ Begin(t)
    /\ d \in env.devices
    /\ \E i \in netdev_get_ifindex(d) :
          LET r == [Idle EXCEPT !.op = "flush", !.dev = d, !.ifindex = i] IN
          Set(t, IF i = 0 THEN RetRec(r, "ENODEV")
                 ELSE [r EXCEPT !.pc = "flush_transact"])
    /\ UNCHANGED <<cache_vars, prio_vars, filters, last>>

\* Mutant: the flush also empties the cache.
FlushTransactClearing(t) ==
    /\ At(t, "flush_transact")
    /\ \E o \in tc_flush(filters, th[t].ifindex) :
          /\ filters' = o.filters
          /\ Set(t, RetRec([th[t] EXCEPT !.reqs = Append(@, "flush")], o.err))
    /\ ufid_to_tc' = EmptyBag
    /\ tc_to_ufid' = EmptyBag
    /\ UNCHANGED <<ufid_lock, cache_refs, prio_vars, ops, env, last, links>>

\* Lines 271-273: return tc_flush(ifindex).
FlushTransact(t) ==
    /\ At(t, "flush_transact")
    /\ \E o \in tc_flush(filters, th[t].ifindex) :
          /\ filters' = o.filters
          /\ Set(t, RetRec([th[t] EXCEPT !.reqs = Append(@, "flush")], o.err))
    /\ UNCHANGED <<cache_vars, prio_vars, ops, env, last, links>>

\* --------------------------------- netdev_tc_flow_dump_create / _dump_next
DumpEnter(t, d) ==
    /\ Begin(t)
    /\ d \in env.devices
    /\ \E i \in netdev_get_ifindex(d) :
          LET r == [Idle EXCEPT !.op = "dump", !.dev = d, !.ifindex = i] IN
          Set(t, IF i = 0 THEN RetRec(r, "ENODEV")
                 ELSE [r EXCEPT !.pc = "dump_start"])
    /\ UNCHANGED <<cache_vars, prio_vars, filters, last>>

\* tc_dump_flower_start(ifindex, dump->nl_dump): the messages of the dump.
tc_dump_flower_start(fs, i) == {f \in fs : f.ifindex = i}

DumpStart(t) ==
    /\ At(t, "dump_start")
    /\ Set(t, [th[t] EXCEPT !.pc = "dump_next",
                            !.cursor = tc_dump_flower_start(filters, th[t].ifindex),
                            !.reqs = Append(@, "dump_start")])
    /\ UNCHANGED <<cache_vars, prio_vars, filters, ops, env, last, links>>

\* The message nl_dump_next delivers next: the kernel dumps by prio, handle.
NextMsg(c) ==
    CHOOSE m \in c : \A n \in c :
        m.prio < n.prio \/ (m.prio = n.prio /\ m.handle <= n.handle)

\* parse_netlink_to_tc_flower(&nl_flow, &flower): 0, or an errno for a
\* message that does not describe a flower filter.
parse_netlink_to_tc_flower(m) == IF m.kind = "flower" THEN "OK" ELSE "EPROTO"

\* The struct tc_flower decoded from message m, as far as the translation
\* of the dump depends on it.
msg_flower(m) == [Flower0 EXCEPT !.ifindex_out = m.ifindex_out]

\* What one round of the loop does with message m (lines 452-465): "skip"
\* for continue, "cookie" when the record carries one, "find" for find_ufid.
dump_round(m) ==
    IF parse_netlink_to_tc_flower(m) # "OK" THEN "skip"
    ELSE IF parse_tc_flower_to_match(msg_flower(m)).err # "OK" THEN "skip"
    ELSE IF m.cookie # NoUfid THEN "cookie"
    ELSE "find"

\* Mutant: a message that fails to decode or translate ends the dump.
DumpNextStopping(t) ==
    /\ At(t, "dump_next")
    /\ IF th[t].cursor = {}
       THEN Set(t, RetRec(th[t], "OK"))
       ELSE LET m == NextMsg(th[t].cursor)
                r == [th[t] EXCEPT !.cursor = @ \ {m}] IN
            Set(t, CASE dump_round(m) = "skip" -> RetRec(r, "OK")
                     [] dump_round(m) = "cookie" ->
                            [r EXCEPT !.out = Append(@, m.cookie)]
                     [] OTHER ->
                            [r EXCEPT !.pc = "fu_lock",
                                      !.msg = Entry(NoUfid, m.prio, m.handle, 0)])
    /\ UNCHANGED <<cache_vars, prio_vars, filters, ops, env, last, links>>

\* Lines 448-473: nl_dump_next; a message that fails to decode or translate
\* is skipped, a record with a cookie is yielded, one without goes through
\* find_ufid; without a message left the call returns false.
DumpNext(t) ==
    /\ At(t, "dump_next")
    /\ IF th[t].cursor = {}
       THEN Set(t, RetRec(th[t], "OK"))
       ELSE LET m == NextMsg(th[t].cursor)
                r == [th[t] EXCEPT !.cursor = @ \ {m}] IN
            Set(t, CASE dump_round(m) = "skip" -> r
                     [] dump_round(m) = "cookie" ->
                            [r EXCEPT !.out = Append(@, m.cookie)]
                     [] OTHER ->
                            [r EXCEPT !.pc = "fu_lock",
                                      !.msg = Entry(NoUfid, m.prio, m.handle, 0)])
    /\ UNCHANGED <<cache_vars, prio_vars, filters, ops, env, last, links>>

FindUfidLock(t) ==
    /\ At(t, "fu_lock")
    /\ ufid_lock = 0
    /\ ufid_lock' = t
    /\ Set(t, [th[t] EXCEPT !.pc = "fu_body"])
    /\ UNCHANGED <<ufid_to_tc, tc_to_ufid, cache_refs, prio_vars, filters, ops,
                 env, last, links>>

\* Mutant: a message find_ufid does not resolve goes back to the cursor.
FindUfidBodyRequeue(t) ==
    /\ At(t, "fu_body")
    /\ \E i \in netdev_get_ifindex(th[t].dev) :
       \E u \in find_ufid(tc_to_ufid, th[t].msg.prio, th[t].msg.handle, i) :
          Set(t, [th[t] EXCEPT
                    !.pc = "dump_next", !.msg = Idle.msg,
                    !.out = IF u = NoUfid THEN @ ELSE Append(@, u),
                    !.cursor = IF u = NoUfid
                               THEN @ \cup {f \in filters :
                                               /\ f.ifindex = th[t].ifindex
                                               /\ f.prio = th[t].msg.prio
                                               /\ f.handle = th[t].msg.handle}
                               ELSE @])
    /\ ufid_lock' = ufid_unlock(t)
    /\ UNCHANGED <<ufid_to_tc, tc_to_ufid, cache_refs, prio_vars, filters, ops,
                 env, last, links>>

\* Lines 207-221: find_ufid(flower.prio, flower.handle, netdev, ufid).
FindUfidBody(t) ==
    /\ At(t, "fu_body")
    /\ \E i \in netdev_get_ifindex(th[t].dev) :
       \E u \in find_ufid(tc_to_ufid, th[t].msg.prio, th[t].msg.handle, i) :
          Set(t, [th[t] EXCEPT !.pc = "dump_next", !.msg = Idle.msg,
                               !.out = IF u = NoUfid THEN @ ELSE Append(@, u)])
    /\ ufid_lock' = ufid_unlock(t)
    /\ UNCHANGED <<ufid_to_tc, tc_to_ufid, cache_refs, prio_vars, filters, ops,
                 env, last, links>>

\* ------------------------------------------------------------ specification
\* A filter another tool installed on device 1 before the switch started.
Foreign == Filter(1, 1, 1, NoUfid, 1, 0)

InitWith(T, D, U, S, n) ==
    /\ ufid_to_tc = EmptyBag
    /\ tc_to_ufid = EmptyBag
    /\ ufid_lock = 0
    /\ cache_refs = [d \in Devices |-> 0]
    /\ prios_lock = 0
    /\ filters \in {{}, {Foreign}}
    /\ th = [t \in Threads |-> Idle]
    /\ ops = 0
    /\ env = [threads |-> T, devices |-> D, ufids |-> U, sigs |-> S,
              budget |-> n]
    /\ last = NoCall
    /\ links = [nm \in Names |-> NoLink]

Next ==
    \/ \E t \in Threads, d \in Devices, u \in Ufids, s \in Sigs,
          shape \in Shapes : PutEnter(t, d, u, s, shape)
    \/ \E t \in Threads : PutDelFilter(t)
    \/ \E t \in Threads : PutReplace(t)
    \/ \E t \in Threads, u \in Ufids : GetEnter(t, u)
    \/ \E t \in Threads : GetIfindex(t)
    \/ \E t \in Threads : GetTransact(t)
    \/ \E t \in Threads, u \in Ufids : DelEnter(t, u)
    \/ \E t \in Threads : DelIfindex(t)
    \/ \E t \in Threads : DelTransact(t)
    \/ \E t \in Threads, d \in Devices : FlushEnter(t, d)
    \/ \E t \in Threads : FlushTransact(t)
    \/ \E t \in Threads, d \in Devices : DumpEnter(t, d)
    \/ \E t \in Threads : DumpStart(t)
    \/ \E t \in Threads : DumpNext(t)
    \/ \E t \in Threads : FindUfidLock(t)
    \/ \E t \in Threads : FindUfidBody(t)
    \/ \E t \in Threads : GetMapLock(t)
    \/ \E t \in Threads : GetMapBody(t)
    \/ \E t \in Threads : DelMapLock(t)
    \/ \E t \in Threads : DelMapFind(t)
    \/ \E t \in Threads : DelMapRm2(t)
    \/ \E t \in Threads : AddMapLock(t)
    \/ \E t \in Threads : AddMapIns1(t)
    \/ \E t \in Threads : AddMapIns2(t)
    \/ \E t \in Threads : PrioLock(t)
    \/ \E t \in Threads : PrioBody(t)
    \/ \E t \in Threads : PrioInsert(t)
    \/ \E t \in Threads : Return(t)

\* One thread: the calls run one after another.
EmptyPrios == prios = <<>> /\ last_prio = 0

Init == InitWith({1}, OneDevice, Ufids, Sigs, MaxOps) /\ EmptyPrios
Spec == Init /\ [][Next]_vars

\* Two threads: the calls interleave at every lock and transport call.
InitConc == InitWith({1, 2}, OneDevice, {"u1"}, {1}, MaxConcOps) /\ EmptyPrios
SpecConc == InitConc /\ [][Next]_vars

\* One step of a call of t that is past its entry: taking or using a mutex,
\* or a transport call.
ThreadStep(t) ==
    \/ GetMapLock(t) \/ GetMapBody(t)
    \/ DelMapLock(t) \/ DelMapFind(t) \/ DelMapRm2(t)
    \/ AddMapLock(t) \/ AddMapIns1(t) \/ AddMapIns2(t)
    \/ PrioLock(t) \/ PrioBody(t) \/ PrioInsert(t)
    \/ PutDelFilter(t) \/ PutReplace(t)
    \/ GetIfindex(t) \/ GetTransact(t)
    \/ DelIfindex(t) \/ DelTransact(t)
    \/ FlushTransact(t)
    \/ DumpStart(t) \/ DumpNext(t) \/ FindUfidLock(t) \/ FindUfidBody(t)

\* Every thread is scheduled again and again and the transport replies.
SpecConcFair == SpecConc /\ \A t \in Threads : WF_vars(ThreadStep(t))

\* Two devices: a flow is put on one device and then on the other.
MaxMoveOps == 2
InitMove == InitWith({1}, Devices, {"u1"}, {1}, MaxMoveOps) /\ EmptyPrios
SpecMove == InitMove /\ [][Next]_vars

\* ------------------------------------------ the priority allocator on its own
\* get_prio_for_tc_flower called directly, one call per step, with the
\* signatures numbered in the order they are first seen. A behaviour starts
\* with an empty table, or with the table that PrioPrefill first-time calls
\* leave: the run up to the end of the uint16_t range is not replayed call by
\* call.
PrioPrefill == PRIO_MOD - 2

PrioCall(t, s) ==
    /\ Begin(t)
    /\ prios_lock = 0
    /\ LET g == get_prio_for_tc_flower(prios, last_prio, s) IN
          /\ prios' = g.prios
          /\ last_prio' = g.last_prio
          /\ Set(t, [Idle EXCEPT !.op = "prio", !.sig = s, !.prio = g.prio])
    /\ UNCHANGED <<cache_vars, prios_lock, filters, last>>

\* The signatures a call may ask for: the next new one, the first, the latest.
PrioAsk == {Cardinality(DOMAIN prios) + 1} \cup
           (DOMAIN prios \cap {1, 2, Cardinality(DOMAIN prios)})

NextPrio == \E t \in Threads : \E s \in PrioAsk : PrioCall(t, s)

InitPrio ==
    /\ InitWith({1}, OneDevice, Ufids, Sigs, MaxPrioCalls)
    /\ filters = {}
    /\ \E n \in {0, PrioPrefill} :
          /\ prios = [s \in 1..n |-> s]
          /\ last_prio = n

SpecPrio == InitPrio /\ [][NextPrio]_vars


\* Two threads calling get_prio_for_tc_flower directly, step by step.
MaxPrioConcCalls == 4

\* A caller builds its flower and calls get_prio_for_tc_flower; fresh records
\* that the signature had no table entry when the call started.
PrioEnter(t, s) ==
    /\ Begin(t)
    /\ s \in env.sigs
    /\ Set(t, [Idle EXCEPT !.op = "prio", !.sig = s, !.pc = "pr_lock",
                           !.fresh = (s \notin DOMAIN prios)])
    /\ UNCHANGED <<cache_vars, prio_vars, filters, last>>

NextPrioConc ==
    \/ \E t \in Threads, s \in Sigs : PrioEnter(t, s)
    \/ \E t \in Threads : PrioLock(t)
    \/ \E t \in Threads : PrioBody(t)
    \/ \E t \in Threads : PrioInsert(t)
    \/ \E t \in Threads : Return(t)

InitPrioConc ==
    /\ InitWith({1, 2}, OneDevice, Ufids, Sigs, MaxPrioConcCalls)
    /\ filters = {}
    /\ EmptyPrios

SpecPrioConc == InitPrioConc /\ [][NextPrioConc]_vars


\* ------------------------------------------- the translation on its own
\* flow_put's translation of a match and an action list into a flower record
\* and flow_get's translation of that record back, applied to inputs drawn
\* from the sets below; the transport stores the record as sent.
MaxXlateOps == 1

tci(vid, cfi, pcp) == vid + cfi * VLAN_CFI + pcp * 2^VLAN_PCP_SHIFT

\* VLAN key/mask pairs: none, exact VID and PCP, exact VID only, exact VID 0
\* and PCP 0, exact "no VLAN".
VlanCases ==
    {<<0, 0>>, <<tci(5, 1, 3), U16_MAX>>, <<tci(5, 1, 0), tci(4095, 1, 0)>>,
     <<tci(0, 1, 0), U16_MAX>>, <<0, U16_MAX>>}

\* Tunnel key: none, id with IPv4 destination and port.
TunCases == {<<0, 0, 0>>, <<5, 167772162, 4789>>}

GeneralMatches ==
    {[Match0 EXCEPT !.dl_type = ty, !.dl_type_m = U16_MAX,
                    !.dl_dst = masked(170, dm), !.dl_dst_m = dm,
                    !.dl_src = 187, !.dl_src_m = U8_MAX,
                    !.vlan_tci = v[1], !.vlan_tci_m = v[2],
                    !.nw_proto = pr, !.nw_proto_m = IF pr = 0 THEN 0 ELSE U8_MAX,
                    !.tp_dst = tp, !.tp_dst_m = IF tp = 0 THEN 0 ELSE U16_MAX,
                    !.tun_id = tn[1], !.tun_dst = tn[2], !.tun_tp_dst = tn[3],
                    !.unsupp = un] :
        ty \in {ETH_TYPE_IP}, dm \in {0, U8_MAX}, v \in VlanCases,
        pr \in {0, 6}, tp \in {0, 80}, tn \in TunCases, un \in {0, 1}}
    \cup
    {[Match0 EXCEPT !.dl_type = 2054, !.dl_type_m = U16_MAX,
                    !.dl_dst = masked(170, dm), !.dl_dst_m = dm,
                    !.dl_src = 187, !.dl_src_m = U8_MAX,
                    !.unsupp = un] :
        dm \in {0, U8_MAX}, un \in {0, 1}}

\* Every class of VLAN key and mask on an otherwise plain IPv4 match.
VlanMatches ==
    {[Match0 EXCEPT !.dl_type = ETH_TYPE_IP, !.dl_type_m = U16_MAX,
                    !.dl_dst = 170, !.dl_dst_m = U8_MAX,
                    !.vlan_tci = tci(kv, kc, kp),
                    !.vlan_tci_m = tci(mv, mc, mp)] :
        kv \in {0, 5}, kc \in {0, 1}, kp \in {0, 3},
        mv \in {0, 240, 4095}, mc \in {0, 1}, mp \in {0, 2, 7}}

Matches == GeneralMatches \cup VlanMatches

\* Port 9 has no device.
ActionValues ==
    {Act("output", 3, 0, 0, 0, 0), Act("output", 4, 0, 0, 0, 0),
     Act("output", 9, 0, 0, 0, 0),
     Act("push_vlan", 0, tci(5, 1, 3), 0, 0, 0),
     Act("push_vlan", 0, tci(0, 1, 0), 0, 0, 0),
     Act("pop_vlan", 0, 0, 0, 0, 0),
     Act("set_tunnel", 0, 0, 5, 167772162, 4789),
     Act("set_other", 0, 0, 0, 0, 0),
     Act("other", 0, 0, 0, 0, 0)}

\* The lists tried: empty, every single action, and pairs with two outputs,
\* an output before and after a VLAN or set action, a rejected action after
\* an accepted one.
ActionLists ==
    {<<>>} \cup {<<x>> : x \in ActionValues}
           \cup {<<x, Act("output", 3, 0, 0, 0, 0)>> : x \in ActionValues}
           \cup {<<Act("output", 3, 0, 0, 0, 0), x>> : x \in ActionValues}

\* info->tp_dst_port.
InfoTpDst == {0, 4789}

\* netdev_tc_flow_put up to the request (lines 669-790): on a rejection the
\* call returns, otherwise the record is sent and stored as it is.
PutTranslate(t) ==
    /\ Begin(t)
    /\ \E m \in Matches, a \in ActionLists, u \in env.ufids,
          tp \in InfoTpDst, oi \in NullDevOutcomes :
          LET r == flow_put_flower(m, a, u, tp, oi) IN
          Set(t, [Idle EXCEPT
                    !.op = "xput", !.ufid = u,
                    !.xin = [m |-> m, a |-> a, tp |-> tp],
                    !.err = r.err,
                    !.flower = IF r.err = "OK" THEN r.flower ELSE <<>>,
                    !.pc = CASE r.err = "OK" -> "xl_sent"
                             [] r.err = "CRASH" -> "abort"
                             [] OTHER -> "ret"])
    /\ UNCHANGED <<cache_vars, prio_vars, filters, last>>

\* netdev_tc_flow_get for the flow just put (lines 829-843): the transport
\* returns the stored record, parse_tc_flower_to_match translates it; its
\* result (xerr) is not looked at (line 836) and the call returns 0 (line
\* 843). After ENOENT the match and the actions are as the caller passed
\* them in: nothing was written.
GetTranslate(t) ==
    /\ At(t, "xl_sent")
    /\ LET g == parse_tc_flower_to_match(th[t].flower) IN
          Set(t, [th[t] EXCEPT !.pc = "ret", !.op = "xget", !.err = "OK",
                               !.xerr = g.err,
                               !.gm = g.match, !.ga = g.actions])
    /\ UNCHANGED <<cache_vars, prio_vars, filters, ops, env, last, links>>

NextXlate ==
    \/ \E t \in Threads : PutTranslate(t)
    \/ \E t \in Threads : GetTranslate(t)
    \/ \E t \in Threads : Return(t)

InitXlate ==
    /\ InitWith({1}, OneDevice, {"u1"}, Sigs, MaxXlateOps)
    /\ filters = {}
    /\ EmptyPrios

SpecXlate == InitXlate /\ [][NextXlate]_vars

\* ===================================================================== claims
\* ------------------------------------------- the dump, run on its own
\* Number of dumps in one behaviour of SpecDump.
MaxDumpOps == 2

\* Messages the dump of device 1 can deliver: the filter of a flow_put with
\* its cookie, a filter without cookie at a location the cache knows, one
\* without cookie the cache does not know, a filter of another classifier
\* kind, and a flower filter whose output interface has no port.
DumpMsgs ==
    {Filter(1, 1, 1, "u1", 1, 3),
     Filter(1, 1, 2, NoUfid, 1, 3),
     Filter(1, 2, 1, NoUfid, 2, 0),
     [Filter(1, 2, 2, "u1", 2, 0) EXCEPT !.kind = "u32"],
     Filter(1, 3, 1, "u2", 1, 9)}

\* The cache at the start: empty, or holding the entry a flow_put of u2 left
\* for the location of the cached message without cookie.
DumpCaches == {EmptyBag, BagOne(Entry("u2", 1, 2, 1))}

\* One round of the loop of a running netdev_tc_flow_dump_next.
DumpStep ==
    \E t \in Threads : DumpNext(t) \/ FindUfidLock(t) \/ FindUfidBody(t)

NextDump ==
    \/ \E t \in Threads, d \in Devices : DumpEnter(t, d)
    \/ \E t \in Threads : DumpStart(t)
    \/ \E t \in Threads : DumpNext(t)
    \/ \E t \in Threads : FindUfidLock(t)
    \/ \E t \in Threads : FindUfidBody(t)
    \/ \E t \in Threads : Return(t)

InitDump ==
    /\ ufid_to_tc \in DumpCaches
    /\ tc_to_ufid = ufid_to_tc
    /\ ufid_lock = 0
    /\ cache_refs = [d \in Devices |->
                        2 * Cardinality({e \in BagToSet(ufid_to_tc) :
                                            e.ifindex = d})]
    /\ prios = (1 :> 1) @@ (2 :> 2)
    /\ last_prio = 2
    /\ prios_lock = 0
    /\ filters \in SUBSET DumpMsgs
    /\ th = [t \in Threads |-> Idle]
    /\ ops = 0
    /\ env = [threads |-> {1}, devices |-> OneDevice, ufids |-> Ufids,
              sigs |-> Sigs, budget |-> MaxDumpOps]
    /\ last = NoCall
    /\ links = [nm \in Names |-> NoLink]

SpecDump == InitDump /\ [][NextDump]_vars

\* The caller keeps calling dump_next, and a call that runs keeps running.
SpecDumpFair == SpecDump /\ WF_vars(DumpStep)

\* ----------------------------------- flow_get / flow_del against flow_del
\* Number of calls in one behaviour of SpecRace.
MaxRaceOps == 2

\* The filter and the cache entry an earlier flow_put of u1 left.
RaceFilter == Filter(1, 1, 1, "u1", 1, 3)
RaceEntry == Entry("u1", 1, 1, 1)

NextRace ==
    \/ \E t \in Threads, u \in Ufids : GetEnter(t, u)
    \/ \E t \in Threads : GetIfindex(t)
    \/ \E t \in Threads : GetTransact(t)
    \/ \E t \in Threads, u \in Ufids : DelEnter(t, u)
    \/ \E t \in Threads : DelIfindex(t)
    \/ \E t \in Threads : DelTransact(t)
    \/ \E t \in Threads : GetMapLock(t)
    \/ \E t \in Threads : GetMapBody(t)
    \/ \E t \in Threads : DelMapLock(t)
    \/ \E t \in Threads : DelMapFind(t)
    \/ \E t \in Threads : DelMapRm2(t)
    \/ \E t \in Threads : Return(t)

InitRace ==
    /\ ufid_to_tc = BagOne(RaceEntry)
    /\ tc_to_ufid = BagOne(RaceEntry)
    /\ ufid_lock = 0
    /\ cache_refs = [d \in Devices |-> IF d = RaceEntry.ifindex THEN 2 ELSE 0]
    /\ prios = (1 :> 1)
    /\ last_prio = 1
    /\ prios_lock = 0
    /\ filters \in {{RaceFilter}, {RaceFilter, Foreign}}
    /\ th = [t \in Threads |-> Idle]
    /\ ops = 0
    /\ env = [threads |-> {1, 2}, devices |-> OneDevice, ufids |-> {"u1"},
              sigs |-> {1}, budget |-> MaxRaceOps]
    /\ last = NoCall
    /\ links = [nm \in Names |-> NoLink]

SpecRace == InitRace /\ [][NextRace]_vars

\* ------------------------------------------- dpif_netlink_rtnl_port_create
\* (lib/dpif-netlink-rtnl.c)
\* Number of port_create calls and changes by other programs in one
\* behaviour of SpecPort.
MaxPortOps == 2

\* enum ovs_vport_type, as far as port_create distinguishes it.
TunnelTypes == {"vxlan", "gre", "geneve"}
VportTypes == TunnelTypes \cup {"lisp"}
\* The kind string of lines 325-333 and 227-231.
vport_kind(type) ==
    CASE type = "vxlan" -> "vxlan"
      [] type = "gre" -> "gretap"
      [] type = "geneve" -> "geneve"
      [] OTHER -> "none"

\* struct netdev_tunnel_config: dst_port and the GBP bit of exts; NoCfg for
\* a device without tunnel configuration.
NoCfg == [dst_port |-> 0, gbp |-> FALSE, tunnel |-> FALSE]
TunnelCfgs == {[dst_port |-> 4789, gbp |-> g, tunnel |-> TRUE] : g \in BOOLEAN}

\* Lines 265-283: the attributes dpif_netlink_rtnl_create writes into the
\* request for a device of this type and kind.
create_request(cfg, type, kind) ==
    CASE type = "vxlan" ->
            [kind |-> kind, learning |-> 0, metadata |-> 1, csum6_rx |-> 1,
             port |-> cfg.dst_port, gbp |-> cfg.gbp]
      [] type = "gre" ->
            [kind |-> kind, learning |-> 0, metadata |-> 1, csum6_rx |-> 0,
             port |-> 0, gbp |-> FALSE]
      [] OTHER ->
            [kind |-> kind, learning |-> 0, metadata |-> 1, csum6_rx |-> 1,
             port |-> cfg.dst_port, gbp |-> FALSE]

\* RTM_NEWLINK with NLM_F_CREATE | NLM_F_EXCL: the outcomes [err, links].
rtnl_newlink(ls, name, link) ==
    (IF ls[name] = NoLink
     THEN {[err |-> "OK", links |-> [ls EXCEPT ![name] = link]]}
     ELSE {[err |-> "EEXIST", links |-> ls]})
    \cup {[err |-> e, links |-> ls] : e \in TransportErrs}

\* RTM_GETLINK: the outcomes [err, reply].
rtnl_getlink(ls, name) ==
    (IF ls[name] = NoLink
     THEN {[err |-> "ENODEV", reply |-> NoLink]}
     ELSE {[err |-> "OK", reply |-> ls[name]]})
    \cup {[err |-> e, reply |-> NoLink] : e \in {"ENOBUFS"}}

\* RTM_DELLINK: the outcomes [err, links].
rtnl_dellink(ls, name) ==
    (IF ls[name] = NoLink
     THEN {[err |-> "ENODEV", links |-> ls]}
     ELSE {[err |-> "OK", links |-> [ls EXCEPT ![name] = NoLink]]})
    \cup {[err |-> e, links |-> ls] : e \in {"ENOBUFS"}}

\* Mutant: the comparison of the VXLAN attributes leaves out learning.
verify_reply_lenient(cfg, type, reply) ==
    IF reply.kind # vport_kind(type) THEN "EINVAL"
    ELSE CASE type = "vxlan" ->
                 IF \/ reply.metadata # 1
                    \/ reply.csum6_rx # 1 \/ reply.port # cfg.dst_port
                 THEN "EINVAL"
                 ELSE IF cfg.gbp /\ ~reply.gbp THEN "EINVAL" ELSE "OK"
           [] type = "gre" ->
                 IF reply.metadata # 1 THEN "EINVAL" ELSE "OK"
           [] OTHER ->
                 IF \/ reply.metadata # 1 \/ reply.csum6_rx # 1
                    \/ reply.port # cfg.dst_port
                 THEN "EINVAL" ELSE "OK"

\* Lines 135-220: rtnl_policy_parse of the reply for the kind, then the
\* comparison of its attributes with the configuration.
verify_reply(cfg, type, reply) ==
    IF reply.kind # vport_kind(type) THEN "EINVAL"
    ELSE CASE type = "vxlan" ->
                 IF \/ reply.learning # 0 \/ reply.metadata # 1
                    \/ reply.csum6_rx # 1 \/ reply.port # cfg.dst_port
                 THEN "EINVAL"
                 ELSE IF cfg.gbp /\ ~reply.gbp THEN "EINVAL" ELSE "OK"
           [] type = "gre" ->
                 IF reply.metadata # 1 THEN "EINVAL" ELSE "OK"
           [] OTHER ->
                 IF \/ reply.metadata # 1 \/ reply.csum6_rx # 1
                    \/ reply.port # cfg.dst_port
                 THEN "EINVAL" ELSE "OK"

\* Lines 222-244: dpif_netlink_rtnl_verify(tnl_cfg, type, name): the results
\* [err, sent]; sent tells whether a request went out.
dpif_netlink_rtnl_verify(ls, cfg, type, name) ==
    IF type \notin TunnelTypes THEN {[err |-> "EOPNOTSUPP", sent |-> FALSE]}
    ELSE {[err |-> IF g.err # "OK" THEN g.err
                   ELSE verify_reply(cfg, type, g.reply),
           sent |-> TRUE] : g \in rtnl_getlink(ls, name)}

\* Lines 324-343: the create of the switch: [err, links, sent].
port_create_request(ls, cfg, type, name) ==
    IF type \notin TunnelTypes
    THEN {[err |-> "EOPNOTSUPP", links |-> ls, sent |-> FALSE]}
    ELSE {[err |-> o.err, links |-> o.links, sent |-> TRUE] :
            o \in rtnl_newlink(ls, name,
                               create_request(cfg, type, vport_kind(type)))}

\* A request and its result, as recorded in the log of the call.
Logged(r, req, err, sent) ==
    IF sent THEN [r EXCEPT !.log = Append(@, [req |-> req, err |-> err])]
    ELSE r

\* Lines 316-323: netdev_get_tunnel_config, type, name, flags.
PortCreateEnter(t, type, cfg) ==
    /\ Begin(t)
    /\ LET r == [Idle EXCEPT !.op = "port_create", !.vtype = type,
                             !.cfg = cfg] IN
       Set(t, IF ~cfg.tunnel THEN RetRec(r, "EINVAL")
              ELSE [r EXCEPT !.pc = "pc_create"])
    /\ UNCHANGED <<cache_vars, prio_vars, filters, last>>

\* Mutant: the retry is not remembered.
after_create_forgetful(r, e) ==
    IF e = "OK" \/ e = "EEXIST"
    THEN [r EXCEPT !.pc = "pc_verify", !.err = e]
    ELSE RetRec(r, e)

\* Line 347: if (!err || (err == EEXIST && !retried)), else return err.
after_create(r, e) ==
    IF e = "OK" \/ (e = "EEXIST" /\ ~r.retried)
    THEN [r EXCEPT !.pc = "pc_verify", !.err = e]
    ELSE RetRec(r, e)

\* Lines 324-347 (try_again).
PortCreate(t) ==
    /\ At(t, "pc_create")
    /\ \E o \in port_create_request(links, th[t].cfg, th[t].vtype, "tun0") :
          /\ links' = o.links
          /\ Set(t, after_create(Logged(th[t], "create", o.err, o.sent),
                                 o.err))
    /\ UNCHANGED <<cache_vars, prio_vars, filters, ops, env, last>>

\* Mutant: the existing device is destroyed whatever the verification said.
after_verify_destroying(r, e2) ==
    IF r.err = "EEXIST" THEN [r EXCEPT !.pc = "pc_destroy"]
    ELSE RetRec(r, e2)

\* Lines 349-357: if (err2 && err == EEXIST) destroy, else err = err2.
after_verify(r, e2) ==
    IF e2 # "OK" /\ r.err = "EEXIST" THEN [r EXCEPT !.pc = "pc_destroy"]
    ELSE RetRec(r, e2)

\* Line 348: err2 = dpif_netlink_rtnl_verify(tnl_cfg, type, name).
PortVerify(t) ==
    /\ At(t, "pc_verify")
    /\ \E v \in dpif_netlink_rtnl_verify(links, th[t].cfg, th[t].vtype,
                                         "tun0") :
          Set(t, after_verify(Logged(th[t], "verify", v.err, v.sent), v.err))
    /\ UNCHANGED <<cache_vars, prio_vars, filters, ops, env, last, links>>

\* Mutant: the destroy does not set retried.
PortDestroyForgetful(t) ==
    /\ At(t, "pc_destroy")
    /\ \E o \in rtnl_dellink(links, "tun0") :
          /\ links' = o.links
          /\ LET r == Logged(th[t], "destroy", o.err, TRUE) IN
             Set(t, IF o.err = "OK" THEN [r EXCEPT !.pc = "pc_create"]
                    ELSE RetRec(r, o.err))
    /\ UNCHANGED <<cache_vars, prio_vars, filters, ops, env, last>>

\* Lines 350-356: err2 = dpif_netlink_rtnl_destroy(name); on success
\* retried = true and goto try_again, else err = err2.
PortDestroy(t) ==
    /\ At(t, "pc_destroy")
    /\ \E o \in rtnl_dellink(links, "tun0") :
          /\ links' = o.links
          /\ LET r == Logged(th[t], "destroy", o.err, TRUE) IN
             Set(t, IF o.err = "OK"
                    THEN [r EXCEPT !.pc = "pc_create", !.retried = TRUE]
                    ELSE RetRec(r, o.err))
    /\ UNCHANGED <<cache_vars, prio_vars, filters, ops, env, last>>

\* Devices another program can have created under the name: for each kind
\* one as port_create makes it, and one differing from it in each attribute
\* the create request of the kind writes.
ForeignLinks ==
    LET c == [dst_port |-> 4789, gbp |-> FALSE, tunnel |-> TRUE]
        vx == create_request(c, "vxlan", "vxlan")
        gn == create_request(c, "geneve", "geneve")
        gr == create_request(c, "gre", "gretap")
    IN {vx, [vx EXCEPT !.learning = 1], [vx EXCEPT !.metadata = 0],
        [vx EXCEPT !.csum6_rx = 0], [vx EXCEPT !.port = 4790],
        [vx EXCEPT !.gbp = TRUE],
        gn, [gn EXCEPT !.metadata = 0], [gn EXCEPT !.csum6_rx = 0],
        [gn EXCEPT !.port = 4790],
        gr, [gr EXCEPT !.metadata = 0]}

\* Another program creates or removes the device.
OtherProgram(l) ==
    /\ ops < env.budget
    /\ ops' = ops + 1
    /\ l # links["tun0"]
    /\ links' = [links EXCEPT !["tun0"] = l]
    /\ UNCHANGED <<cache_vars, prio_vars, filters, th, env, last>>

\* One step of a running port_create.
PortStep == \E t \in Threads : PortCreate(t) \/ PortVerify(t) \/ PortDestroy(t)

NextPort ==
    \/ \E t \in Threads, type \in VportTypes, cfg \in TunnelCfgs \cup {NoCfg} :
          PortCreateEnter(t, type, cfg)
    \/ \E t \in Threads : PortCreate(t)
    \/ \E t \in Threads : PortVerify(t)
    \/ \E t \in Threads : PortDestroy(t)
    \/ \E l \in ForeignLinks \cup {NoLink} : OtherProgram(l)
    \/ \E t \in Threads : Return(t)

\* The device is absent or was created by another program before.
InitPort ==
    /\ ufid_to_tc = EmptyBag
    /\ tc_to_ufid = EmptyBag
    /\ ufid_lock = 0
    /\ cache_refs = [d \in Devices |-> 0]
    /\ EmptyPrios
    /\ prios_lock = 0
    /\ filters = {}
    /\ th = [t \in Threads |-> Idle]
    /\ ops = 0
    /\ env = [threads |-> {1}, devices |-> OneDevice, ufids |-> Ufids,
              sigs |-> Sigs, budget |-> MaxPortOps]
    /\ last = NoCall
    /\ links \in [Names -> ForeignLinks \cup {NoLink}]

SpecPort ==
    /\ InitPort
    /\ [][NextPort]_vars

\* A port_create that runs keeps running.
SpecPortFair == SpecPort /\ WF_vars(PortStep)

\* ------------------------------------- dpif_netlink_rtnl_probe_oot_tunnels
MaxProbeOps == 3

\* RTM_NEWLINK with NLM_F_CREATE and without NLM_F_EXCL for kind ovs_geneve:
\* a kernel without the kind answers EOPNOTSUPP, one with it creates the
\* device or takes the request for the existing one: [err, links].
rtnl_newlink_probe(ls, name, link) ==
    {[err |-> "OK",
      links |-> IF ls[name] = NoLink THEN [ls EXCEPT ![name] = link] ELSE ls],
     [err |-> "EOPNOTSUPP", links |-> ls]}
    \cup {[err |-> e, links |-> ls] : e \in TransportErrs}

\* Lines 403-410: netdev_open("ovs-system-probe", "geneve", &netdev) with
\* result e, then netdev_get_tunnel_config; return true at line 409 when it
\* is NULL.
ProbeEnter(t, e, cfg) ==
    /\ Begin(t)
    /\ LET r == [Idle EXCEPT !.op = "probe", !.vtype = "geneve", !.cfg = cfg,
                             !.derr = e] IN
       Set(t, IF e # "OK" THEN [r EXCEPT !.pc = "ret"]
              ELSE IF ~cfg.tunnel
                   THEN [r EXCEPT !.pc = "ret", !.devref = 1,
                                  !.out_of_tree = TRUE]
                   ELSE [r EXCEPT !.pc = "pr_create", !.devref = 1])
    /\ UNCHANGED <<cache_vars, prio_vars, filters, last>>

\* Mutant: every error of the create request means out of tree.
ProbeCreateAnyError(t) ==
    /\ At(t, "pr_create")
    /\ \E o \in rtnl_newlink_probe(links, "tun0",
                    create_request(th[t].cfg, "geneve", "ovs_geneve")) :
          /\ links' = o.links
          /\ LET r == Logged(th[t], "create", o.err, TRUE) IN
             Set(t, IF o.err = "OK" THEN [r EXCEPT !.pc = "pr_destroy"]
                    ELSE [r EXCEPT !.pc = "ret", !.out_of_tree = TRUE,
                                   !.devref = @ - 1, !.closes = @ + 1])
    /\ UNCHANGED <<cache_vars, prio_vars, filters, ops, env, last>>

\* Lines 412-423: dpif_netlink_rtnl_create(tnl_cfg, name,
\* OVS_VPORT_TYPE_GENEVE, "ovs_geneve", flags); on EOPNOTSUPP netdev_close
\* and return false, on another error out_of_tree = true, netdev_close.
ProbeCreate(t) ==
    /\ At(t, "pr_create")
    /\ \E o \in rtnl_newlink_probe(links, "tun0",
                    create_request(th[t].cfg, "geneve", "ovs_geneve")) :
          /\ links' = o.links
          /\ LET r == Logged(th[t], "create", o.err, TRUE) IN
             Set(t, IF o.err = "OK" THEN [r EXCEPT !.pc = "pr_destroy"]
                    ELSE [r EXCEPT !.pc = "ret",
                                   !.out_of_tree = (o.err # "EOPNOTSUPP"),
                                   !.devref = @ - 1, !.closes = @ + 1])
    /\ UNCHANGED <<cache_vars, prio_vars, filters, ops, env, last>>

\* Lines 418-423: dpif_netlink_rtnl_destroy(name), its result unused;
\* out_of_tree = true; netdev_close(netdev).
ProbeDestroy(t) ==
    /\ At(t, "pr_destroy")
    /\ \E o \in rtnl_dellink(links, "tun0") :
          /\ links' = o.links
          /\ Set(t, [Logged(th[t], "destroy", o.err, TRUE)
                        EXCEPT !.pc = "ret", !.out_of_tree = TRUE,
                               !.devref = @ - 1, !.closes = @ + 1])
    /\ UNCHANGED <<cache_vars, prio_vars, filters, ops, env, last>>

\* The devices the name can stand for: Geneve devices of the alternate
\* kind name, as an earlier run or another program made them.
ProbeLinks == {create_request(c, "geneve", "ovs_geneve") : c \in TunnelCfgs}

NextProbe ==
    \/ \E t \in Threads, e \in {"OK", "EAFNOSUPPORT"},
          cfg \in TunnelCfgs \cup {NoCfg} : ProbeEnter(t, e, cfg)
    \/ \E t \in Threads : ProbeCreate(t)
    \/ \E t \in Threads : ProbeDestroy(t)
    \/ \E l \in ProbeLinks \cup {NoLink} : OtherProgram(l)
    \/ \E t \in Threads : Return(t)

\* The probe runs before any port is created: the device of its name is
\* absent, or left from an earlier run.
InitProbe ==
    /\ ufid_to_tc = EmptyBag
    /\ tc_to_ufid = EmptyBag
    /\ ufid_lock = 0
    /\ cache_refs = [d \in Devices |-> 0]
    /\ EmptyPrios
    /\ prios_lock = 0
    /\ filters = {}
    /\ th = [t \in Threads |-> Idle]
    /\ ops = 0
    /\ env = [threads |-> {1}, devices |-> OneDevice, ufids |-> Ufids,
              sigs |-> Sigs, budget |-> MaxProbeOps]
    /\ last = NoCall
    /\ links \in [Names -> ProbeLinks \cup {NoLink}]

SpecProbe ==
    /\ InitProbe
    /\ [][NextProbe]_vars

\* ------------------------------------------------------------------ claims
Count(seq, x) == Cardinality({k \in 1..Len(seq) : seq[k] = x})
HasUfid(map, u) == UfidMatches(map, u) # {}
AllIdle == \A t \in Threads : At(t, "idle")
\* The filters flow_put installed for u: those carrying cookie u.
Carrying(u) == {f \in filters : f.cookie = u}
\* The flow_put call of t has just returned success (Return not yet taken).
PutOk(t) == At(t, "ret") /\ th[t].op = "put" /\ th[t].err = "OK"

\* C1: when the create-or-replace request of flow_put(d, m, a, u) fails,
\* flow_put returns exactly the transport's error, has issued one create
\* request only, and the cache holds no entry for u afterwards, whether or
\* not u had an entry before the call.
C1_FailedPutLeavesNoEntry ==
    \A t \in Threads :
        (At(t, "ret") /\ th[t].op = "put" /\ Count(th[t].reqs, "replace") > 0
            /\ th[t].terr # "OK")
        => /\ th[t].err = th[t].terr
           /\ Count(th[t].reqs, "replace") = 1
           /\ ~HasUfid(ufid_to_tc, th[t].ufid)
           /\ ~HasUfid(tc_to_ufid, th[t].ufid)

\* C2: for a ufid u that has a cache entry, after flow_del(d, u) returns with
\* any result, neither index holds an entry for u.
C2_DelAlwaysEvicts ==
    \A t \in Threads :
        (At(t, "ret") /\ th[t].op = "del" /\ th[t].handle # 0)
        => /\ ~HasUfid(ufid_to_tc, th[t].ufid)
           /\ ~HasUfid(tc_to_ufid, th[t].ufid)

\* The number of records a dump of interface i yields for ufid u: a filter
\* with a cookie is reported under it, one without under find_ufid's answer.
DumpCount(u, i) ==
    Cardinality({f \in tc_dump_flower_start(filters, i) :
                    IF f.cookie # NoUfid THEN f.cookie = u
                    ELSE u \in find_ufid(tc_to_ufid, f.prio, f.handle, i)})

\* t returns from the second of two successive successful flow_put calls with
\* the same device, ufid and match.
SecondPut(t) ==
    /\ PutOk(t)
    /\ last.op = "put" /\ last.dev = th[t].dev /\ last.ufid = th[t].ufid
    /\ last.sig = th[t].sig

\* C3 as stated: after two successive successful flow_put calls with the same
\* device, ufid u and match, exactly one filter carrying cookie u is
\* installed, the cache holds exactly one location for u and a dump of the
\* device yields exactly one record for u.
C3_ExactlyOneFilter ==
    \A t \in Threads :
        SecondPut(t)
        => /\ Cardinality(Carrying(th[t].ufid)) = 1
           /\ Cardinality(UfidMatches(ufid_to_tc, th[t].ufid)) = 1
           /\ DumpCount(th[t].ufid, th[t].ifindex) = 1

\* C3 amended: the second of two successive successful identical flow_put
\* calls leaves the installed filters exactly as the first left them, the
\* ufid index holds exactly one entry for u, that entry addresses a location
\* on the device where a filter carrying cookie u is installed, and the
\* location index maps that location to u. Filters carrying cookie u that
\* were installed before the two calls and are not at the location the cache
\* records for u stay where they are; when there is none (last.clean), exactly
\* one filter carries cookie u and a dump of the device yields exactly one
\* record for u.
C3_SecondPutAddsNothing ==
    \A t \in Threads :
        SecondPut(t)
        => /\ filters = last.filters
           /\ BagCardinality(ufid_to_tc) >= 1
           /\ \A e \in BagToSet(ufid_to_tc) : e.ufid = th[t].ufid =>
                 /\ CopiesIn(e, ufid_to_tc) = 1
                 /\ UfidMatches(ufid_to_tc, th[t].ufid) = {e}
                 /\ e.ifindex = th[t].ifindex
                 /\ \E f \in FilterAt(filters, e.ifindex, e.prio, e.handle) :
                        f.cookie = th[t].ufid /\ f.sig = th[t].sig
                 /\ BagIn(e, tc_to_ufid)
           /\ HasUfid(ufid_to_tc, th[t].ufid)
           /\ last.clean =>
                 /\ Cardinality(Carrying(th[t].ufid)) = 1
                 /\ DumpCount(th[t].ufid, th[t].ifindex) = 1

\* C3 witness: the second put has returned, with the filter of the first put
\* replaced in place and a filter of another flow installed next to it.
C3_Witness ==
    \E t \in Threads :
        /\ SecondPut(t)
        /\ th[t].reqs = <<"del", "replace">>
        /\ last.clean
        /\ Cardinality(Carrying(th[t].ufid)) = 1
        /\ \E f \in filters : f.cookie \notin {th[t].ufid, NoUfid}

\* C4: whenever ufid_lock is free, the ufid index and the location index hold
\* exactly the same (ufid, location) pairs.
C4_IndexSymmetry ==
    ufid_lock = 0 =>
        /\ BagToSet(ufid_to_tc) = BagToSet(tc_to_ufid)
        /\ \A e \in BagToSet(ufid_to_tc) :
               CopiesIn(e, ufid_to_tc) = CopiesIn(e, tc_to_ufid)

\* Another thread is inside flow_del or a cache insert for the same ufid.
OtherWriter(t, u) ==
    \E o \in Threads \ {t} :
        th[o].ufid = u /\ th[o].pc \in {"del_transact", "dm_lock", "dm_find",
                                        "dm_rm2", "am_lock", "am_ins1", "am_ins2"}

\* C5: cache operations are atomic: the ufid index never holds more than one
\* entry for a ufid, and while an insert that replaces the entry of u is in
\* progress (and nobody else removes or inserts u) a reader that can take the
\* mutex finds u present.
C5_InsertAtomic ==
    ufid_lock = 0 =>
        /\ \A u \in Ufids :
               BagCardinality([e \in UfidMatches(ufid_to_tc, u) |->
                                  CopiesIn(e, ufid_to_tc)]) <= 1
        /\ \A t \in Threads :
               (th[t].op = "put" /\ th[t].replaced
                   /\ th[t].pc \in {"dm_lock", "am_lock"}
                   /\ ~OtherWriter(t, th[t].ufid))
               => HasUfid(ufid_to_tc, th[t].ufid)

\* Program counters at which the next step of the thread is a transport call.
TransportPcs == {"put_del", "put_replace", "get_transact", "del_transact",
                 "flush_transact", "dump_start", "dump_next"}

\* C6: a thread about to issue a transport call holds neither ufid_lock nor
\* prios_lock.
C6_NoLockAcrossTransport ==
    \A t \in Threads :
        th[t].pc \in TransportPcs => ufid_lock # t /\ prios_lock # t

\* C6 witness: a thread is about to send the create-or-replace request, after
\* its cache lookup and priority allocation, while the other thread is inside
\* a critical section of the cache.
C6_Witness ==
    \E t \in Threads, o \in Threads :
        /\ t # o
        /\ At(t, "put_replace") /\ th[t].prio # 0
        /\ ufid_lock = o

\* C7: the signature table is never shrunk or modified for a signature it
\* holds, and every get_prio_for_tc_flower call returns the priority the
\* table holds for its signature: once a signature has a priority, every
\* later call for it returns the same one.
C7_PrioStable ==
    [][/\ \A s \in DOMAIN prios : s \in DOMAIN prios' /\ prios'[s] = prios[s]
       /\ \A t \in Threads :
             (/\ th[t].pc \in {"pr_body", "pr_insert"}
              /\ th'[t].pc \notin {"pr_body", "pr_insert"})
             => th'[t].prio = prios'[th[t].sig]]_vars

\* C7 witness: a flow_put got its priority from the allocator for a signature
\* that was the first to be allocated, after a second signature was
\* allocated, and a filter of another flow with that signature sits at the
\* same priority.
C7_Witness ==
    \E t \in Threads :
        /\ At(t, "put_replace") /\ th[t].handle = 0
        /\ Cardinality(DOMAIN prios) = 2
        /\ th[t].prio = 1
        /\ \E f \in filters :
              /\ f.cookie \notin {th[t].ufid, NoUfid}
              /\ f.sig = th[t].sig /\ f.prio = th[t].prio

\* The signatures whose table entry the C8 formulas read: the one the latest
\* call asked for, the first three seen and the latest seen.
PrioProbe ==
    DOMAIN prios \cap ({th[t].sig : t \in Threads}
                       \cup {1, 2, 3, Cardinality(DOMAIN prios)})

\* C8 as stated: the k-th distinct signature receives priority k, and no two
\* different signatures receive the same priority, however many signatures
\* there are. (SpecPrio numbers the signatures in the order they are first
\* seen.)
C8_KthGetsK ==
    /\ \A t \in Threads : th[t].op = "prio" => th[t].prio = th[t].sig
    /\ \A s \in PrioProbe : prios[s] = s
    /\ \A s, r \in PrioProbe : s # r => prios[s] # prios[r]

\* C8 amended: the k-th distinct signature receives priority k for
\* k <= 65535, so the first 65535 signatures never collide; the 65536th
\* receives 0 and the (65536 + j)-th receives j, the priority of the j-th.
C8_KthGetsKMod ==
    /\ \A t \in Threads :
          th[t].op = "prio" =>
              /\ th[t].sig < PRIO_MOD => th[t].prio = th[t].sig
              /\ th[t].sig >= PRIO_MOD => th[t].prio = th[t].sig - PRIO_MOD
              /\ th[t].prio = prios[th[t].sig]
    /\ \A s \in PrioProbe :
          /\ s < PRIO_MOD => prios[s] = s
          /\ s >= PRIO_MOD => prios[s] = s - PRIO_MOD
    /\ \A s, r \in PrioProbe :
          (s # r /\ s < PRIO_MOD /\ r < PRIO_MOD) => prios[s] # prios[r]
    /\ last_prio = Cardinality(DOMAIN prios)

\* C8 witness: the 65535th distinct signature has just received 65535.
C8_Witness ==
    \E t \in Threads :
        /\ th[t].op = "prio"
        /\ th[t].sig = PRIO_MOD - 1 /\ th[t].prio = PRIO_MOD - 1
        /\ Cardinality(DOMAIN prios) = PRIO_MOD - 1

\* C9: between calls, any two filters installed by flow_put whose records
\* have equal mask signatures are installed at the same priority.
C9_SameSigSamePrio ==
    AllIdle =>
        \A f, g \in {x \in filters : x.cookie # NoUfid} :
            f.sig = g.sig => f.prio = g.prio

\* C10: between calls, any two filters installed by flow_put at the same
\* priority on the same device have equal mask signatures.
C10_OneMaskPerPrio ==
    AllIdle =>
        \A f, g \in {x \in filters : x.cookie # NoUfid} :
            (f.ifindex = g.ifindex /\ f.prio = g.prio) => f.sig = g.sig

\* A get_prio_for_tc_flower call of t has returned.
PrioReturned(t) == At(t, "ret") /\ th[t].op = "prio"

\* C11: with calls of get_prio_for_tc_flower running concurrently, every call
\* returns the priority the table holds for its signature (so calls with
\* equal signatures return the same priority), the counter has advanced by
\* exactly one per signature in the table, and different signatures hold
\* different priorities.
C11_AllocatorAtomic ==
    /\ last_prio = Cardinality(DOMAIN prios)
    /\ \A s1, s2 \in DOMAIN prios : s1 # s2 => prios[s1] # prios[s2]
    /\ \A t \in Threads :
          PrioReturned(t)
          => th[t].sig \in DOMAIN prios /\ th[t].prio = prios[th[t].sig]
    /\ \A t1, t2 \in Threads :
          (PrioReturned(t1) /\ PrioReturned(t2) /\ th[t1].sig = th[t2].sig)
          => th[t1].prio = th[t2].prio

\* C11 witness: two calls that both started while their common signature had
\* no entry have both returned, after another signature was allocated.
C11_Witness ==
    /\ \A t \in Threads : PrioReturned(t) /\ th[t].fresh
    /\ th[1].sig = th[2].sig /\ th[1].prio = th[2].prio
    /\ Cardinality(DOMAIN prios) = 2
    /\ th[1].prio = 2


\* ---------------------------------------------------- translation claims
\* flow_get has returned the match and actions of the flow t has just put.
GotBack(t) == At(t, "ret") /\ th[t].op = "xget" /\ th[t].xerr = "OK"

\* flow_put's translation of t's input is over: rejected, sent, or the call
\* did not return.
PutDone(t) ==
    \/ th[t].pc \in {"xl_sent", "abort"}
    \/ (At(t, "ret") /\ th[t].op = "xput")

\* C12: after a successful flow_put of match m, flow_get returns a match whose
\* key and mask equal m's on every supported field, the unsupported ones
\* wildcarded (for the matches whose key has no bit outside its mask).
C12_MatchRoundTrip ==
    \A t \in Threads :
        (GotBack(t) /\ th[t].xin.m \in GeneralMatches)
        => th[t].gm = [th[t].xin.m EXCEPT !.unsupp = 0]

\* The action lists made of supported actions only, with resolvable ports.
SupportedActs(a) ==
    \A n \in 1..Len(a) :
        /\ a[n].type \in {"output", "push_vlan", "pop_vlan", "set_tunnel"}
        /\ a[n].type = "output" => port_ifindex(a[n].port) # 0

\* C13: after a successful flow_put of a list of supported actions, flow_get
\* returns the same actions in the same order.
C13_ActionRoundTrip ==
    \A t \in Threads :
        (GotBack(t) /\ SupportedActs(th[t].xin.a)) => th[t].ga = th[t].xin.a

\* The VLAN key and mask the classifier can express, from the TCI bits: mask
\* and key CFI set, VID mask and PCP mask each all-zero or all-one, one of
\* them all-one.
VlanAccepted(key, mask) ==
    LET mvid == mask % 4096
        mcfi == (mask \div 4096) % 2
        mpcp == mask \div 8192
        kcfi == (key \div 4096) % 2
    IN /\ mcfi = 1 /\ kcfi = 1
       /\ mvid \in {0, 4095} /\ mpcp \in {0, 7}
       /\ (mvid = 4095 \/ mpcp = 7)

\* C15: with a non-zero VLAN mask (and no action to reject), the translation
\* accepts exactly when the VLAN match is expressible, writing a VLAN record,
\* or when the mask is 0xffff and the TCI is 0, writing no VLAN field; in
\* every other case flow_put returns EOPNOTSUPP.
C15_VlanAcceptance ==
    \A t \in Threads :
        (PutDone(t) /\ th[t].xin.m.vlan_tci_m # 0 /\ th[t].xin.a = <<>>)
        => LET m == th[t].xin.m IN
           IF VlanAccepted(m.vlan_tci, m.vlan_tci_m)
           THEN /\ th[t].err = "OK"
                /\ th[t].flower.eth_type = ETH_TYPE_VLAN
                /\ th[t].flower.encap_eth_type = m.dl_type
           ELSE IF m.vlan_tci_m = 65535 /\ m.vlan_tci = 0
           THEN /\ th[t].err = "OK"
                /\ th[t].flower.eth_type = m.dl_type
                /\ th[t].flower.vlan_id = 0 /\ th[t].flower.vlan_prio = 0
                /\ th[t].flower.encap_eth_type = 0
           ELSE th[t].err = "EOPNOTSUPP" /\ At(t, "ret")

\* C15 witness: an exact VID with wildcarded PCP was accepted and written as a
\* VLAN record.
C15_Witness ==
    \E t \in Threads :
        /\ At(t, "xl_sent") /\ th[t].xin.a = <<>>
        /\ th[t].xin.m.vlan_tci_m = 4096 + 4095
        /\ th[t].flower.vlan_id = 5
        /\ th[t].flower.eth_type = ETH_TYPE_VLAN

\* C16: the outcome of flow_put's translation (error, or the record sent) is
\* the one the match differing only in the unsupported fields produces.
C16_DropIsNoErrorChannel ==
    \A t \in Threads :
        PutDone(t)
        => LET i == th[t].xin
               m2 == [i.m EXCEPT !.unsupp = 1 - @]
           IN /\ \A oi \in NullDevOutcomes :
                    flow_put_flower(i.m, i.a, th[t].ufid, i.tp, oi)
                    = flow_put_flower(m2, i.a, th[t].ufid, i.tp, oi)
              /\ \E oi \in NullDevOutcomes :
                    LET r == flow_put_flower(m2, i.a, th[t].ufid, i.tp, oi) IN
                    /\ r.err = th[t].err
                    /\ r.err = "OK" => r.flower = th[t].flower

\* C16 witness: a match with unsupported fields set was translated and sent.
C16_Witness ==
    \E t \in Threads :
        /\ At(t, "xl_sent") /\ th[t].xin.m.unsupp = 1
        /\ th[t].xin.m.tp_dst = 80 /\ th[t].flower.dst_port = 80
        /\ Len(th[t].xin.a) = 1

\* C18: a flow_put whose only action is an output to a port without device
\* returns ENOENT and sends nothing.
C18_UnresolvedOutputFails ==
    \A t \in Threads :
        (/\ PutDone(t)
         /\ Len(th[t].xin.a) = 1
         /\ th[t].xin.a[1].type = "output"
         /\ port_ifindex(th[t].xin.a[1].port) = 0
         /\ th[t].xin.m.vlan_tci_m = 0)
        => At(t, "ret") /\ th[t].err = "ENOENT"

\* ------------------------------------------- cookie, rejection, ordering
\* The positions of flow_put after a successful tc_replace_flower.
InstallPcs == {"dm_lock", "dm_find", "dm_rm2", "am_lock", "am_ins1", "am_ins2"}

\* The messages a running dump has consumed so far.
Consumed(t) == tc_dump_flower_start(filters, th[t].ifindex) \ th[t].cursor

\* C14: every create-or-replace request of flow_put for ufid u carries a
\* cookie of 16 bytes equal to u, the filter it installs carries u, every
\* cookie installed is a ufid given to flow_put, and a dump yields, for each
\* consumed filter with a cookie, a record with that cookie as its ufid.
C14_CookieRoundTrip ==
    /\ \A t \in Threads :
          (th[t].op = "put" /\ Count(th[t].reqs, "replace") > 0)
          => th[t].cookie = [data |-> th[t].ufid, len |-> 16]
    /\ \A t \in Threads :
          (th[t].op = "put" /\ th[t].pc \in InstallPcs)
          => \E f \in FilterAt(filters, th[t].ifindex, th[t].fprio,
                               th[t].fhandle) : f.cookie = th[t].ufid
    /\ \A f \in filters : f.cookie # NoUfid => f.cookie \in Ufids
    /\ \A t \in Threads :
          (th[t].op = "dump" /\ Count(th[t].reqs, "dump_start") > 0)
          => \A f \in Consumed(t) :
                f.cookie # NoUfid
                => Count(th[t].out, f.cookie)
                   >= Cardinality({g \in Consumed(t) : g.cookie = f.cookie})

\* C14 witness: a dump of a device with the filters of two flows has yielded
\* both ufids.
C14_Witness ==
    \E t \in Threads :
        /\ At(t, "ret") /\ th[t].op = "dump"
        /\ Count(th[t].out, "u1") = 1 /\ Count(th[t].out, "u2") = 1
        /\ \E f, g \in filters : f.cookie = "u1" /\ g.cookie = "u2"

\* C17: a flow_put rejected before the cache lookup (no ifindex, partial VLAN
\* mask, unsupported action, set of another key than the tunnel) returns in
\* its first step with ENODEV resp. EOPNOTSUPP, having issued no transport
\* request and changed neither cache, allocator nor filters.
C17_EarlyRejectChangesNothing ==
    [][\A t \in Threads :
          (/\ At(t, "idle") /\ th'[t].op = "put"
           /\ (th'[t].ifindex = 0 \/ th'[t].shape # "ok"))
          => /\ th'[t].pc = "ret"
             /\ th'[t].err = IF th'[t].ifindex = 0 THEN "ENODEV"
                             ELSE "EOPNOTSUPP"
             /\ th'[t].reqs = <<>>
             /\ UNCHANGED <<cache_vars, prio_vars, filters>>]_vars

\* C17 witness: a flow_put with a partial VLAN mask was rejected for a ufid
\* whose earlier filter is installed and cached.
C17_Witness ==
    \E t \in Threads :
        /\ At(t, "ret") /\ th[t].op = "put" /\ th[t].shape = "partial_vlan"
        /\ th[t].err = "EOPNOTSUPP"
        /\ HasUfid(ufid_to_tc, th[t].ufid)
        /\ Carrying(th[t].ufid) # {}

\* flow_put of t has looked the ufid up in the cache.
LookedUp(t) ==
    /\ th[t].op = "put"
    /\ th[t].pc \notin {"idle", "gm_lock", "gm_body"}
    /\ ~(At(t, "ret") /\ th[t].reqs = <<>>
         /\ th[t].err \in {"ENODEV", "EOPNOTSUPP"})

\* C19: flow_put issues the delete of the old filter before the replace and
\* once, exactly when the lookup found a cache entry, and whatever the delete
\* returned the replace request is issued before the call returns.
C19_ReplaceOrdering ==
    \A t \in Threads :
        th[t].op = "put"
        => /\ th[t].reqs \in {<<>>, <<"del">>, <<"replace">>,
                              <<"del", "replace">>}
           /\ (LookedUp(t) /\ ~At(t, "put_del"))
              => (Count(th[t].reqs, "del") = 1 <=> th[t].handle # 0)
           /\ (LookedUp(t) /\ At(t, "put_del")) => th[t].reqs = <<>>
           /\ (LookedUp(t) /\ (At(t, "ret") \/ th[t].pc \in InstallPcs))
              => Count(th[t].reqs, "replace") = 1

\* C19 witness: the delete of the old filter failed and the replace was
\* issued after it and succeeded.
C19_Witness ==
    \E t \in Threads :
        /\ At(t, "ret") /\ th[t].op = "put"
        /\ th[t].reqs = <<"del", "replace">>
        /\ th[t].derr = "failed" /\ th[t].terr = "OK"

\* C20: every step of a flow_get or flow_del whose lookup found no entry
\* leaves both indexes and the filters as they are and issues no transport
\* request, and the call returns ENOENT.
C20_MissIsNotFound ==
    [][\A t \in Threads :
          (/\ th'[t] # th[t]
           /\ th'[t].op \in {"get", "del"}
           /\ th'[t].handle = 0)
          => /\ UNCHANGED <<ufid_to_tc, tc_to_ufid, filters>>
             /\ th'[t].reqs = <<>>
             /\ th'[t].pc = "ret" => th'[t].err = "ENOENT"]_vars

\* C20 witness: flow_del of a ufid without entry returned ENOENT while the
\* cache holds the entry of another flow.
C20_Witness ==
    \E t \in Threads :
        /\ At(t, "ret") /\ th[t].op = "del" /\ th[t].err = "ENOENT"
        /\ th[t].reqs = <<>>
        /\ ~HasUfid(ufid_to_tc, th[t].ufid)
        /\ hmap_count(ufid_to_tc) = 1 /\ hmap_count(tc_to_ufid) = 1

\* ---------------------------------------------------- cache after flow_put
\* The location the transport returned to the flow_put of t, as a cache entry.
Installed(t) == Entry(th[t].ufid, th[t].fprio, th[t].fhandle, th[t].ifindex)

\* C21: when flow_put has returned success, the ufid index holds exactly one
\* entry for u, with the priority and handle the transport returned and the
\* interface index of the device, the location index holds the same pair, so
\* that the lookup by ufid answers with that location and the lookup by
\* location can answer u; and an entry for u leaves the ufid index only in
\* the removal step of del_ufid_tc_mapping(u).
C21_PutCachesLocation ==
    /\ [](\A t \in Threads :
            PutOk(t)
            => /\ UfidMatches(ufid_to_tc, th[t].ufid) = {Installed(t)}
               /\ CopiesIn(Installed(t), ufid_to_tc) = 1
               /\ BagIn(Installed(t), tc_to_ufid)
               /\ get_ufid_tc_mapping(ufid_to_tc, th[t].ufid)
                    = {[handle |-> th[t].fhandle, prio |-> th[t].fprio,
                        dev |-> th[t].ifindex]}
               /\ th[t].ufid \in find_ufid(tc_to_ufid, th[t].fprio,
                                           th[t].fhandle, th[t].ifindex)
               /\ FilterAt(filters, th[t].ifindex, th[t].fprio,
                           th[t].fhandle) # {})
    /\ [][\A u \in Ufids :
            (HasUfid(ufid_to_tc, u) /\ ~HasUfid(ufid_to_tc', u))
            => \E t \in Threads : At(t, "dm_find") /\ th[t].ufid = u]_vars

\* C21 witness: a flow_put asked for any handle, the kernel chose handle 2
\* next to the filter of another flow, and the cache records that location.
C21_Witness ==
    \E t \in Threads :
        /\ PutOk(t) /\ th[t].handle = 0 /\ th[t].fhandle = 2
        /\ BagIn(Installed(t), ufid_to_tc) /\ BagIn(Installed(t), tc_to_ufid)
        /\ hmap_count(ufid_to_tc) = 2

\* ------------------------------------------------------------ flow_flush
\* C22: flow_flush of a device with an interface index issues exactly one
\* delete-all request for that interface and returns its result (a device
\* without interface index gets the device's error and no request); no step
\* of the call changes the ufid index, the location index or the allocator
\* table, whether the request succeeds or fails, so the entries of filters on
\* the device are still cached when it returns.
C22_FlushKeepsCache ==
    /\ [](\A t \in Threads :
            (At(t, "ret") /\ th[t].op = "flush")
            => /\ th[t].reqs = IF th[t].ifindex # 0 THEN <<"flush">>
                               ELSE <<>>
               /\ th[t].err = "OK"
                  => tc_dump_flower_start(filters, th[t].ifindex) = {})
    /\ [][\A t \in Threads :
            (th'[t] # th[t] /\ th'[t].op = "flush")
            => /\ UNCHANGED <<cache_vars, prio_vars>>
               /\ At(t, "flush_transact")
                  => filters' \in {filters,
                                   {f \in filters :
                                        f.ifindex # th[t].ifindex}}]_vars

\* C22 witness: a flush emptied the classifier of the device while the cache
\* still holds the entry of a flow installed on it.
C22_Witness ==
    \E t \in Threads :
        /\ At(t, "ret") /\ th[t].op = "flush" /\ th[t].err = "OK"
        /\ th[t].reqs = <<"flush">>
        /\ filters = {}
        /\ \E e \in BagToSet(ufid_to_tc) :
              e.ifindex = th[t].ifindex /\ BagIn(e, tc_to_ufid)
        /\ last_prio >= 1

\* ------------------------------------------------------------------ dump
\* The messages of the dump of t whose round of the loop is over.
Handled(t) ==
    {m \in Consumed(t) :
        ~(th[t].pc \in {"fu_lock", "fu_body"}
          /\ m.prio = th[t].msg.prio /\ m.handle = th[t].msg.handle)}

\* Message m decodes to a flower record and translates to a match.
Decoded(m) ==
    /\ parse_netlink_to_tc_flower(m) = "OK"
    /\ parse_tc_flower_to_match(msg_flower(m)).err = "OK"

\* The handled messages of t that yield a record for u by their cookie,
\* resp. those without cookie whose location the location index maps to u.
ByCookie(t, u) == {m \in Handled(t) : Decoded(m) /\ m.cookie = u}
ByLocation(t, u) ==
    {m \in Handled(t) :
        /\ Decoded(m) /\ m.cookie = NoUfid
        /\ u \in find_ufid(tc_to_ufid, m.prio, m.handle, th[t].ifindex)}

\* C23: the records a dump has yielded are those of the handled messages
\* that decode, translate and resolve to a ufid: a record with a cookie is
\* reported under the cookie, one without under the answer of find_ufid for
\* (prio, handle, interface of the dump device), yielded when find_ufid finds
\* an entry and skipped when it finds none; no other message is reported, and
\* the dump ends only when no message is left.
C23_DumpIdentity ==
    /\ [](\A t \in Threads :
            (th[t].op = "dump" /\ Count(th[t].reqs, "dump_start") > 0)
            => /\ \A u \in Ufids :
                    /\ Count(th[t].out, u) >= Cardinality(ByCookie(t, u))
                    /\ Count(th[t].out, u)
                         <= Cardinality(ByCookie(t, u))
                            + Cardinality(ByLocation(t, u))
               /\ \A k \in 1..Len(th[t].out) : th[t].out[k] \in Ufids
               /\ At(t, "ret") => th[t].cursor = {} /\ th[t].err = "OK")
    /\ [][\A t \in Threads :
            At(t, "fu_body")
            => \E i \in netdev_get_ifindex(th[t].dev) :
               \E u \in find_ufid(tc_to_ufid, th[t].msg.prio,
                                  th[t].msg.handle, i) :
                  /\ th'[t].out = IF u = NoUfid THEN th[t].out
                                  ELSE Append(th[t].out, u)
                  /\ th'[t].pc = "dump_next"]_vars

\* C23 witness: a dump of all five kinds of message has ended with the
\* records of the cookie and of the cached location, the other three
\* messages skipped.
C23_Witness ==
    \E t \in Threads :
        /\ At(t, "ret") /\ th[t].op = "dump"
        /\ filters = DumpMsgs
        /\ th[t].out = <<"u1", "u2">>

\* C24: a dump consumes each message of its cursor at most once (the cursor
\* only shrinks, by one message per round of the loop), yields at most as
\* many records as messages consumed, and once started reaches the return
\* of false with the cursor exhausted.
C24_DumpTerminates ==
    /\ [](\A t \in Threads :
            (th[t].op = "dump" /\ Count(th[t].reqs, "dump_start") > 0)
            => /\ th[t].cursor \subseteq
                     tc_dump_flower_start(filters, th[t].ifindex)
               /\ Len(th[t].out) <= Cardinality(Consumed(t)))
    /\ [][\A t \in Threads :
            (th[t].op = "dump" /\ th'[t].op = "dump"
             /\ Count(th[t].reqs, "dump_start") > 0)
            => /\ th'[t].cursor \subseteq th[t].cursor
               /\ Cardinality(th[t].cursor \ th'[t].cursor) <= 1
               /\ Len(th'[t].out) > Len(th[t].out)
                  => Len(th'[t].out) = Len(th[t].out) + 1]_vars
    /\ \A t \in Threads :
          (th[t].op = "dump" /\ At(t, "dump_next"))
          ~> (th[t].op = "dump" /\ At(t, "ret") /\ th[t].cursor = {})

\* C24 witness: a dump of five messages has returned false with an empty
\* cursor after yielding two records.
C24_Witness ==
    \E t \in Threads :
        /\ At(t, "ret") /\ th[t].op = "dump" /\ th[t].err = "OK"
        /\ Cardinality(Consumed(t)) = 5 /\ th[t].cursor = {}
        /\ Len(th[t].out) = 2

\* ------------------------------------------------------ device references
\* References of this layer on device d: those of the cache entries and those
\* the running calls obtained from get_ufid_tc_mapping and still hold.
Referenced(d) ==
    \/ cache_refs[d] > 0
    \/ \E t \in Threads : th[t].devref > 0 /\ th[t].cdev = d

\* C25: when a flow_get or flow_del of u has looked u up and a flow_del of u
\* runs concurrently, the first call reads the device only while a reference
\* on it is held (it does not read it after its own netdev_close when the
\* cache's references are gone), the two indexes stay equal whenever
\* ufid_lock is free, and once a flow_del of u has been through
\* del_ufid_tc_mapping no index holds an entry for u.
C25_GetDelRaceHarmless ==
    /\ [](ufid_lock = 0 => ufid_to_tc = tc_to_ufid)
    /\ [](\A t \in Threads :
            (At(t, "ret") /\ th[t].op = "del" /\ Count(th[t].reqs, "del") > 0)
            => ~HasUfid(ufid_to_tc, th[t].ufid)
               /\ ~HasUfid(tc_to_ufid, th[t].ufid))
    /\ [][\A t \in Threads :
            (th'[t].uar /\ ~th[t].uar) => Referenced(th[t].cdev)']_vars

\* C26: a flow_get or flow_del that obtained a device reference from the
\* lookup has released it exactly once when it returns, whatever the return
\* path.
C26_ReferenceReleased ==
    \A t \in Threads :
        (At(t, "ret") /\ th[t].op \in {"get", "del"} /\ th[t].handle # 0)
        => th[t].closes = 1 /\ th[t].devref = 0

\* The entries of index map on device d, counted with multiplicity.
EntriesOn(map, d) ==
    LET es == {e \in BagToSet(map) : e.ifindex = d} IN
    IF es = {} THEN 0 ELSE BagCardinality([e \in es |-> map[e]])

\* C27: whenever ufid_lock is free, the references the cache holds on each
\* device are as many as the entries on that device in the two indexes
\* together, the indexes hold equally many entries (two references per cached
\* ufid); the insert takes two references in one step, and a remove that
\* found the ufid finds an entry to release in the location index as well,
\* each removal releasing one reference.
C27_CacheRefAccounting ==
    /\ [](ufid_lock = 0
          => /\ \A d \in Devices :
                   cache_refs[d] = EntriesOn(ufid_to_tc, d)
                                   + EntriesOn(tc_to_ufid, d)
             /\ hmap_count(ufid_to_tc) = hmap_count(tc_to_ufid))
    /\ [](\A t \in Threads :
            At(t, "dm_rm2")
            => /\ del_tc_matches(tc_to_ufid, th[t].rm) # {}
               /\ hmap_count(tc_to_ufid) = hmap_count(ufid_to_tc) + 1
               /\ \A d \in Devices :
                     cache_refs[d] = EntriesOn(ufid_to_tc, d)
                                     + EntriesOn(tc_to_ufid, d))
    /\ [][\A t \in Threads :
            /\ (At(t, "am_lock") /\ th'[t].pc = "am_ins1")
               => cache_refs'[th[t].dev] = cache_refs[th[t].dev] + 2
            /\ (At(t, "dm_rm2") /\ th'[t].pc # "dm_rm2")
               => cache_refs'[th[t].rm.ifindex]
                    = cache_refs[th[t].rm.ifindex] - 1]_vars

\* C27 witness: after a replacing flow_put the cache holds the entries of two
\* flows on the device and four references on it.
C27_Witness ==
    \E t \in Threads :
        /\ PutOk(t) /\ th[t].replaced
        /\ ufid_lock = 0
        /\ hmap_count(ufid_to_tc) = 2 /\ hmap_count(tc_to_ufid) = 2
        /\ cache_refs[th[t].dev] = 4

\* ------------------------------------------------------------ port_create
Req(q, e) == [req |-> q, err |-> e]
\* The positions of the log of t holding a request q.
Sent(t, q) == {k \in 1..Len(th[t].log) : th[t].log[k].req = q}
PortCall(t) == th[t].op = "port_create"

\* C28: a port_create issues at most two create requests and at most one
\* destroy request; a destroy follows a create that returned EEXIST and a
\* verification that failed; a second create follows a destroy that
\* succeeded; and a call that has started reaches its return.
C28_BoundedRetry ==
    /\ [](\A t \in Threads :
            PortCall(t)
            => /\ Cardinality(Sent(t, "create")) <= 2
               /\ Cardinality(Sent(t, "destroy")) <= 1
               /\ \A k \in Sent(t, "destroy") :
                     /\ k >= 3
                     /\ th[t].log[k - 2] = Req("create", "EEXIST")
                     /\ th[t].log[k - 1].req = "verify"
                     /\ th[t].log[k - 1].err # "OK"
               /\ \A k \in Sent(t, "create") :
                     k > 1 => th[t].log[k - 1] = Req("destroy", "OK"))
    /\ \A t \in Threads : PortCall(t) ~> (PortCall(t) /\ At(t, "ret"))

\* C28 witness: the device existed with other attributes, was destroyed,
\* created again and verified.
C28_Witness ==
    \E t \in Threads :
        /\ PortCall(t) /\ At(t, "ret") /\ th[t].err = "OK"
        /\ th[t].log = <<Req("create", "EEXIST"), Req("verify", "EINVAL"),
                         Req("destroy", "OK"), Req("create", "OK"),
                         Req("verify", "OK")>>

\* C29: when the first create returned EEXIST and the verification of the
\* existing device succeeded, port_create returns success with these two
\* requests only, and neither of them changed the device.
C29_IdempotentCreate ==
    /\ [](\A t \in Threads :
            (/\ PortCall(t) /\ Len(th[t].log) >= 2
             /\ th[t].log[1] = Req("create", "EEXIST")
             /\ th[t].log[2] = Req("verify", "OK"))
            => /\ At(t, "ret") /\ th[t].err = "OK"
               /\ Len(th[t].log) = 2)
    /\ [][\A t \in Threads :
            (/\ PortCall(t) /\ Len(th'[t].log) = Len(th[t].log) + 1
             /\ \/ th'[t].log[Len(th'[t].log)] = Req("create", "EEXIST")
                \/ th'[t].log[Len(th'[t].log)].req = "verify")
            => UNCHANGED links]_vars

\* C29 witness: port_create returned success for a device another program
\* had created, after one create and one verification.
C29_Witness ==
    \E t \in Threads :
        /\ PortCall(t) /\ At(t, "ret") /\ th[t].err = "OK"
        /\ th[t].log = <<Req("create", "EEXIST"), Req("verify", "OK")>>
        /\ links["tun0"] \in ForeignLinks

\* C30: a first create that fails with another error than EEXIST ends the
\* call with that error and no further request; a create issued after the
\* retry that fails (EEXIST included) ends the call with its error, and one
\* that succeeds is followed by the verification only, whose failure is
\* the error returned.
C30_FatalErrors ==
    \A t \in Threads :
        PortCall(t)
        => /\ (/\ Len(th[t].log) >= 1
               /\ th[t].log[1].req = "create"
               /\ th[t].log[1].err \notin {"OK", "EEXIST"})
              => /\ At(t, "ret") /\ th[t].err = th[t].log[1].err
                 /\ Len(th[t].log) = 1
           /\ \A k \in Sent(t, "create") :
                 k > 1
                 => /\ th[t].log[k].err # "OK"
                       => /\ At(t, "ret") /\ th[t].err = th[t].log[k].err
                          /\ Len(th[t].log) = k
                    /\ (th[t].log[k].err = "OK" /\ Len(th[t].log) > k)
                       => /\ Len(th[t].log) = k + 1
                          /\ th[t].log[k + 1].req = "verify"
                          /\ At(t, "ret")
                          /\ th[t].err = th[t].log[k + 1].err

\* C30 witness: after the destroy another program created the device again;
\* the second create returned EEXIST and the call returned it.
C30_Witness ==
    \E t \in Threads :
        /\ PortCall(t) /\ At(t, "ret") /\ th[t].err = "EEXIST"
        /\ th[t].retried
        /\ th[t].log[Len(th[t].log)] = Req("create", "EEXIST")
        /\ Cardinality(Sent(t, "create")) = 2

\* The result of the last request of the log of t.
LastReq(r) == r.log[Len(r.log)]
\* The step of t is the one in which its port_create reaches its return.
Returns(t) == PortCall(t) /\ ~At(t, "ret") /\ th'[t].pc = "ret"
\* A device as the configuration asks for it, attribute by attribute.
Desired(cfg, type, l) ==
    /\ l.kind = vport_kind(type)
    /\ l.metadata = 1
    /\ type = "vxlan" => /\ l.learning = 0 /\ l.csum6_rx = 1
                         /\ l.port = cfg.dst_port
                         /\ cfg.gbp => l.gbp
    /\ type = "geneve" => l.csum6_rx = 1 /\ l.port = cfg.dst_port

C38_NoLeftoverDevice ==
    \A t \in Threads :
        (PortCall(t) /\ At(t, "ret") /\ th[t].err # "OK")
        => \A k \in Sent(t, "create") :
              th[t].log[k].err = "OK"
              => \E j \in Sent(t, "destroy") : j > k

\* C39: a verification whose query was answered succeeds exactly when the
\* device has the attributes the create request for the configuration
\* writes: a device differing in the kind or in one of learning, metadata
\* collection, zero-checksum-on-receive, destination port or GBP flag fails.
C39_CreateVerifyAgreement ==
    [][\A t \in Threads :
         (/\ PortCall(t) /\ At(t, "pc_verify") /\ ~(th'[t].pc = "pc_verify")
          /\ LastReq(th'[t]).err \in {"OK", "EINVAL"})
         => (LastReq(th'[t]).err = "OK"
             <=> links["tun0"] = create_request(th[t].cfg, th[t].vtype,
                                                vport_kind(th[t].vtype)))]_vars

\* ------------------------------------------------------------------ probe
\* The probe of t has reached its return.
Probed(t) == th[t].op = "probe" /\ At(t, "ret")
\* A create request of the probe that returned something other than
\* operation-not-supported.
Supported(t) ==
    \E k \in Sent(t, "create") : th[t].log[k].err # "EOPNOTSUPP"

\* C31 as stated: the probe returns true exactly when its create request
\* was issued and returned a result other than EOPNOTSUPP.
C31_TrueIffCreateSupported ==
    \A t \in Threads : Probed(t) => (th[t].out_of_tree <=> Supported(t))

\* C31 amended: the probe returns true exactly when the probe device was
\* opened and either it has no tunnel configuration (no create request is
\* issued then) or the create request returned a result other than
\* EOPNOTSUPP; it returns false when the device could not be opened or the
\* create request returned EOPNOTSUPP. It issues at most one create request.
C31_ProbeResult ==
    \A t \in Threads :
        Probed(t)
        => /\ th[t].out_of_tree
                <=> /\ th[t].derr = "OK"
                    /\ \/ ~th[t].cfg.tunnel /\ Sent(t, "create") = {}
                       \/ Supported(t)
           /\ th[t].derr # "OK"
                => ~th[t].out_of_tree /\ th[t].log = <<>>
           /\ (\E k \in Sent(t, "create") : th[t].log[k].err = "EOPNOTSUPP")
                => ~th[t].out_of_tree
           /\ Cardinality(Sent(t, "create")) <= 1

\* C31 witness: the create request of the probe failed with another error
\* than EOPNOTSUPP and the probe returned true.
C31_Witness ==
    \E t \in Threads :
        /\ Probed(t) /\ th[t].out_of_tree
        /\ th[t].log = <<Req("create", "ENOBUFS")>>

\* C40: when the probe returns, a create request that succeeded is followed
\* by a destroy request, and the reference on the device the probe opened
\* has been released.
C40_ProbeCleanup ==
    \A t \in Threads :
        Probed(t)
        => /\ \A k \in Sent(t, "create") :
                 th[t].log[k].err = "OK"
                 => \E j \in Sent(t, "destroy") : j > k
           /\ th[t].devref = 0

\* ------------------------------------------------ set tunnel, flow_get
\* The scenario's action list: set tunnel {id 5, dst 10.0.0.2}, then an
\* output to a port with a device.
TunnelSetActs ==
    <<Act("set_tunnel", 0, 0, 5, 167772162, 4789), Act("output", 3, 0, 0, 0, 0)>>

C36_GetFailsOnTranslation ==
    \A t \in Threads :
        (At(t, "ret") /\ th[t].op = "xget" /\ th[t].xerr # "OK")
        => th[t].err # "OK"

\* ----------------------------------------- re-put, concurrent flow_put
\* C34: a successful flow_put for u on interface i2, when the cache held u at
\* a location on another interface i1, leaves no filter carrying cookie u on
\* i1.
C34_ReputLeavesOldDevice ==
    \A t \in Threads :
        (PutOk(t) /\ th[t].handle # 0 /\ th[t].cdev # th[t].ifindex)
        => ~\E f \in Carrying(th[t].ufid) : f.ifindex = th[t].cdev

\* C35: when two successful flow_put calls for the same ufid on the same
\* device have both reached their return, exactly one filter carrying the
\* ufid is installed and the single cache entry of the ufid addresses it.
C35_ConcurrentPutsOneFilter ==
    \A t1, t2 \in Threads :
        (/\ t1 # t2 /\ PutOk(t1) /\ PutOk(t2)
         /\ th[t1].ufid = th[t2].ufid /\ th[t1].dev = th[t2].dev)
        => /\ Cardinality(Carrying(th[t1].ufid)) = 1
           /\ \A f \in Carrying(th[t1].ufid) :
                 \A e \in UfidMatches(ufid_to_tc, th[t1].ufid) :
                    SameLoc(e, f.prio, f.handle, f.ifindex)
           /\ UfidMatches(ufid_to_tc, th[t1].ufid) # {}

\* ------------------------------------------------------- deadlock freedom
\* Program counters at which the next step of the thread takes ufid_lock.
CacheLockPcs == {"gm_lock", "dm_lock", "am_lock", "fu_lock"}
\* t is inside a flow_put, flow_get, flow_del or dump_next call.
InCall(t) ==
    th[t].op \in {"put", "get", "del", "dump"} /\ ~At(t, "idle") /\ ~At(t, "ret")

\* C33: no thread holds ufid_lock and prios_lock at the same time; a thread
\* about to take one of them does not hold it (the insert takes ufid_lock
\* only after its internal remove released it); and with every thread
\* scheduled and the transport replying, every flow_put, flow_get, flow_del
\* and dump_next call reaches its return.
C33_DeadlockFree ==
    /\ [](\A t \in Threads :
            /\ ~(ufid_lock = t /\ prios_lock = t)
            /\ th[t].pc \in CacheLockPcs => ufid_lock # t
            /\ At(t, "pr_lock") => prios_lock # t
            /\ ufid_lock = t => ~At(t, "pr_lock")
            /\ prios_lock = t => th[t].pc \notin CacheLockPcs
            /\ (At(t, "idle") \/ At(t, "ret"))
                 => ufid_lock # t /\ prios_lock # t)
    /\ \A t \in Threads : InCall(t) ~> At(t, "ret")

\* C33 witness: a flow_put that has been through the allocator waits for
\* ufid_lock before its insert while the flow_put of the other thread holds
\* it.
C33_Witness ==
    \E t \in Threads, o \in Threads :
        /\ t # o
        /\ At(t, "am_lock") /\ th[t].op = "put" /\ th[t].prio # 0
        /\ ufid_lock = o /\ InCall(o) /\ th[o].op = "put"

====
